---------------------------- MODULE Spec2Model ----------------------------
(***************************************************************************)
(* Model of the realtime WebSocket hub of internal/server/server.go:       *)
(* subscription commands, the bounded ingestion queue, the dispatch loop,  *)
(* the duplicate suppressor and the per-connection sequence counters.      *)
(*                                                                         *)
(* Strings are sequences of byte codes (32 = " ", 42 = "*", 97 = "a", ...) *)
(* so that trimming, comparing and sorting are computed, not assumed.      *)
(* Times are milliseconds read from the wall clock.                        *)
(***************************************************************************)
EXTENDS Integers, Sequences, FiniteSets, TLC

\* ------------------------------------------------------------------ bounds

\* longest chatIDs list handed to the normalizer in SpecNorm
MaxListLen == 3
\* capacity of the ingestion queue: wsEventQueueSize is 512 in the source,
\* scaled down so that a full queue is reachable
wsEventQueueSize == 2
\* inputs of a run (frames read on all connections, payloads delivered by
\* the protocol client, keepalive ticks) in Spec, SpecConn and SpecDedup
MaxInputs == 3
MaxConnInputs == 3
MaxDedupInputs == 3
\* the same in SpecProto
MaxProtoInputs == 3
\* raw events in one room of a batch in SpecMap
MaxEvents == 2
\* inputs of a run in SpecLock
MaxLockInputs == 3
\* batches of a run in SpecRun
MaxRun == 3
\* batches and keepalive ticks of a run in SpecLive
MaxLiveInputs == 2

\* ------------------------------------------------------- program constants

wsDuplicateEventDebounce == 250
wsFingerprintRetention == 30000
wsFingerprintPruneInterval == 5000

wsSubscriptionsCommandType == "subscriptions.set"
wsSubscriptionsUpdatedType == "subscriptions.updated"
wsReadyType == "ready"
wsDomainTypeChatUpserted == "chat.upserted"
wsDomainTypeChatDeleted == "chat.deleted"
wsDomainTypeMessageUpserted == "message.upserted"
wsDomainTypeMessageDeleted == "message.deleted"
wsErrorType == "error"
wsErrorCodeInvalidCommand == "INVALID_COMMAND"
wsErrorCodeInvalidPayload == "INVALID_PAYLOAD"
\* "*"
wsWildcardSubscriptionChatID == <<42>>

\* ------------------------------------------------------------------ strings

\* strings.TrimSpace: drop leading and trailing white space (32 is the only
\* white-space byte of the modelled alphabet)
RECURSIVE TrimLeft(_)
TrimLeft(s) ==
    IF s # <<>> /\ Head(s) = 32 THEN TrimLeft(Tail(s)) ELSE s

RECURSIVE TrimRight(_)
TrimRight(s) ==
    IF s # <<>> /\ s[Len(s)] = 32 THEN TrimRight(SubSeq(s, 1, Len(s) - 1)) ELSE s

TrimSpace(s) == TrimRight(TrimLeft(s))

\* Go's string comparison a < b: bytewise lexicographic
RECURSIVE StrLess(_, _)
StrLess(a, b) ==
    IF b = <<>> THEN FALSE
    ELSE IF a = <<>> THEN TRUE
    ELSE IF Head(a) # Head(b) THEN Head(a) < Head(b)
    ELSE StrLess(Tail(a), Tail(b))

\* insert x into the ascending list l (after the elements not greater than x)
RECURSIVE InsertSorted(_, _)
InsertSorted(x, l) ==
    IF l = <<>> THEN <<x>>
    ELSE IF StrLess(x, Head(l)) THEN <<x>> \o l
    ELSE <<Head(l)>> \o InsertSorted(x, Tail(l))

\* sort.Strings: ascending order, every element kept
RECURSIVE SortStrings(_)
SortStrings(l) ==
    IF l = <<>> THEN <<>> ELSE InsertSorted(Head(l), SortStrings(Tail(l)))

\* --------------------------------------------------------------- JSON values

\* a decoded JSON value (encoding/json into `any`): a string, a number, an
\* array, or nothing (the key is absent, the map lookup yields nil)
JStr(s) == [k |-> "str", v |-> s]
JNum == [k |-> "num", v |-> <<>>]
JArr(items) == [k |-> "arr", v |-> items]
JAbsent == [k |-> "absent", v |-> <<>>]

\* ------------------------------------------------------ chat-ID normalization

\* decodeWSChatIDs: the loop over the array's values
RECURSIVE DecodeLoop(_, _)
DecodeLoop(valueList, output) ==
    IF valueList = <<>> THEN [ok |-> TRUE, list |-> output]
    ELSE IF Head(valueList).k # "str" THEN [ok |-> FALSE, list |-> <<>>]
    ELSE LET asString == TrimSpace(Head(valueList).v)
         IN  DecodeLoop(Tail(valueList),
                        IF asString # <<>> THEN Append(output, asString) ELSE output)

decodeWSChatIDs(raw) ==
    IF raw.k # "arr" THEN [ok |-> FALSE, list |-> <<>>]
    ELSE DecodeLoop(raw.v, <<>>)

\* normalizeWSChatIDs: the loop that trims, skips blanks and duplicates and
\* notes the wildcard
RECURSIVE NormalizeLoop(_, _, _, _)
NormalizeLoop(chatIDs, seen, normalized, hasWildcard) ==
    IF chatIDs = <<>> THEN [normalized |-> normalized, hasWildcard |-> hasWildcard]
    ELSE LET chatID == TrimSpace(Head(chatIDs))
         IN  IF chatID = <<>>
             THEN NormalizeLoop(Tail(chatIDs), seen, normalized, hasWildcard)
             ELSE LET wild == hasWildcard \/ chatID = wsWildcardSubscriptionChatID
                  IN  IF chatID \in seen
                      THEN NormalizeLoop(Tail(chatIDs), seen, normalized, wild)
                      ELSE NormalizeLoop(Tail(chatIDs), seen \cup {chatID},
                                         Append(normalized, chatID), wild)

\* faulty variant: the final sort is forgotten
normalizeWSChatIDs_NoSort(chatIDs) ==
    IF Len(chatIDs) = 0 THEN [ok |-> TRUE, list |-> <<>>]
    ELSE LET r == NormalizeLoop(chatIDs, {}, <<>>, FALSE)
         IN  IF r.hasWildcard
             THEN IF Len(r.normalized) # 1 \/ r.normalized[1] # wsWildcardSubscriptionChatID
                  THEN [ok |-> FALSE, list |-> <<>>]
                  ELSE [ok |-> TRUE, list |-> <<wsWildcardSubscriptionChatID>>]
             ELSE [ok |-> TRUE, list |-> r.normalized]

normalizeWSChatIDs(chatIDs) ==
    IF Len(chatIDs) = 0 THEN [ok |-> TRUE, list |-> <<>>]
    ELSE LET r == NormalizeLoop(chatIDs, {}, <<>>, FALSE)
         IN  IF r.hasWildcard
             THEN IF Len(r.normalized) # 1 \/ r.normalized[1] # wsWildcardSubscriptionChatID
                  THEN [ok |-> FALSE, list |-> <<>>]
                  ELSE [ok |-> TRUE, list |-> <<wsWildcardSubscriptionChatID>>]
             ELSE [ok |-> TRUE, list |-> SortStrings(r.normalized)]

\* faulty variant: an empty subscription matches like the wildcard
isWSSubscribed_EmptyMatches(subscribedChatIDs, chatID) ==
    \/ Len(subscribedChatIDs) = 0
    \/ \E i \in 1..Len(subscribedChatIDs) :
           \/ subscribedChatIDs[i] = wsWildcardSubscriptionChatID
           \/ subscribedChatIDs[i] = chatID

isWSSubscribed(subscribedChatIDs, chatID) ==
    /\ Len(subscribedChatIDs) # 0
    /\ \E i \in 1..Len(subscribedChatIDs) :
           \/ subscribedChatIDs[i] = wsWildcardSubscriptionChatID
           \/ subscribedChatIDs[i] = chatID

\* ------------------------------------------------------ domain event mapper

\* the set as an ascending list (sort.Strings over the keys of a Go map)
RECURSIVE SortedKeys(_)
SortedKeys(S) ==
    IF S = {} THEN <<>>
    ELSE LET x == CHOOSE y \in S : TRUE
         IN  InsertSorted(x, SortedKeys(S \ {x}))

\* faulty variant: the keys come in descending order
mapKeysSorted_Descending(values) ==
    LET sorted == SortedKeys({key \in values : TrimSpace(key) # <<>>})
    IN  [i \in 1..Len(sorted) |-> sorted[Len(sorted) + 1 - i]]

\* mapKeysSorted: the non-blank keys of the set, ascending
mapKeysSorted(values) == SortedKeys({key \in values : TrimSpace(key) # <<>>})

\* a raw timeline event of a room (database.Event): evtType is
\* evt.GetType().Type; id, relatesTo and redactedBy are strings, "" when unset
RawEvent(evtType, evtID, relatesTo, relationType, redactedBy) ==
    [isNil |-> FALSE, type |-> evtType, id |-> evtID, relatesTo |-> relatesTo,
     relationType |-> relationType, redactedBy |-> redactedBy]

\* one room of a batch (jsoncmd.SyncRoom): which parts are present
SyncRoom(meta, hasState, hasAccountData, hasTimeline, events) ==
    [isNil |-> FALSE, meta |-> meta, state |-> hasState, accountData |-> hasAccountData,
     timeline |-> hasTimeline, events |-> events]

\* faulty variant: a reaction is reported under its own ID
RECURSIVE RoomEventsLoop_OwnID(_, _)
RoomEventsLoop_OwnID(events, acc) ==
    IF events = <<>> THEN acc
    ELSE LET evt == Head(events)
             rest == Tail(events)
         IN  IF evt.isNil THEN RoomEventsLoop_OwnID(rest, acc)
             ELSE IF evt.type = "m.room.redaction"
             THEN RoomEventsLoop_OwnID(rest,
                      IF evt.relatesTo # <<>>
                      THEN [acc EXCEPT !.deleted = @ \cup {evt.relatesTo}]
                      ELSE acc)
             ELSE IF evt.redactedBy # <<>>
             THEN RoomEventsLoop_OwnID(rest,
                      IF evt.id # <<>>
                      THEN [acc EXCEPT !.deleted = @ \cup {evt.id}]
                      ELSE acc)
             ELSE IF evt.type \in {"m.room.message", "m.sticker", "m.reaction"}
             THEN LET t2 == IF evt.relationType = "m.replace" /\ evt.relatesTo # <<>>
                            THEN evt.relatesTo ELSE evt.id
                      targetID == TrimSpace(t2)
                  IN  RoomEventsLoop_OwnID(rest,
                          [acc EXCEPT !.touched = TRUE,
                                      !.upserted = IF targetID # <<>>
                                                   THEN @ \cup {targetID} ELSE @])
             ELSE IF evt.type \in {"m.room.member", "m.room.name",
                                   "m.room.avatar", "m.room.topic"}
             THEN RoomEventsLoop_OwnID(rest, [acc EXCEPT !.touched = TRUE])
             ELSE RoomEventsLoop_OwnID(rest, acc)

\* faulty variant: the message, sticker and reaction case is tried before the
\* redactedBy case
RECURSIVE RoomEventsLoop_MessageFirst(_, _)
RoomEventsLoop_MessageFirst(events, acc) ==
    IF events = <<>> THEN acc
    ELSE LET evt == Head(events)
             rest == Tail(events)
         IN  IF evt.isNil THEN RoomEventsLoop_MessageFirst(rest, acc)
             ELSE IF evt.type = "m.room.redaction"
             THEN RoomEventsLoop_MessageFirst(rest,
                      IF evt.relatesTo # <<>>
                      THEN [acc EXCEPT !.deleted = @ \cup {evt.relatesTo}]
                      ELSE acc)
             ELSE IF evt.type \in {"m.room.message", "m.sticker", "m.reaction"}
             THEN LET t1 == IF evt.type = "m.reaction" /\ evt.relatesTo # <<>>
                            THEN evt.relatesTo ELSE evt.id
                      t2 == IF evt.relationType = "m.replace" /\ evt.relatesTo # <<>>
                            THEN evt.relatesTo ELSE t1
                      targetID == TrimSpace(t2)
                  IN  RoomEventsLoop_MessageFirst(rest,
                          [acc EXCEPT !.touched = TRUE,
                                      !.upserted = IF targetID # <<>>
                                                   THEN @ \cup {targetID} ELSE @])
             ELSE IF evt.redactedBy # <<>>
             THEN RoomEventsLoop_MessageFirst(rest,
                      IF evt.id # <<>>
                      THEN [acc EXCEPT !.deleted = @ \cup {evt.id}]
                      ELSE acc)
             ELSE IF evt.type \in {"m.room.member", "m.room.name",
                                   "m.room.avatar", "m.room.topic"}
             THEN RoomEventsLoop_MessageFirst(rest, [acc EXCEPT !.touched = TRUE])
             ELSE RoomEventsLoop_MessageFirst(rest, acc)

\* the loop over roomSync.Events: acc holds chatTouched and the two ID sets
RECURSIVE RoomEventsLoop(_, _)
RoomEventsLoop(events, acc) ==
    IF events = <<>> THEN acc
    ELSE LET evt == Head(events)
             rest == Tail(events)
         IN  IF evt.isNil THEN RoomEventsLoop(rest, acc)
             ELSE IF evt.type = "m.room.redaction"
             THEN RoomEventsLoop(rest,
                      IF evt.relatesTo # <<>>
                      THEN [acc EXCEPT !.deleted = @ \cup {evt.relatesTo}]
                      ELSE acc)
             ELSE IF evt.redactedBy # <<>>
             THEN RoomEventsLoop(rest,
                      IF evt.id # <<>>
                      THEN [acc EXCEPT !.deleted = @ \cup {evt.id}]
                      ELSE acc)
             ELSE IF evt.type \in {"m.room.message", "m.sticker", "m.reaction"}
             THEN LET t1 == IF evt.type = "m.reaction" /\ evt.relatesTo # <<>>
                            THEN evt.relatesTo ELSE evt.id
                      t2 == IF evt.relationType = "m.replace" /\ evt.relatesTo # <<>>
                            THEN evt.relatesTo ELSE t1
                      targetID == TrimSpace(t2)
                  IN  RoomEventsLoop(rest,
                          [acc EXCEPT !.touched = TRUE,
                                      !.upserted = IF targetID # <<>>
                                                   THEN @ \cup {targetID} ELSE @])
             ELSE IF evt.type \in {"m.room.member", "m.room.name",
                                   "m.room.avatar", "m.room.topic"}
             THEN RoomEventsLoop(rest, [acc EXCEPT !.touched = TRUE])
             ELSE RoomEventsLoop(rest, acc)

DomainEvent(type, chatID, ids) == [type |-> type, chatID |-> chatID, ids |-> ids]

\* faulty variant: the message.deleted event of a room is appended before
\* its message.upserted event
RoomDomainEvents_DeletedFirst(roomID, roomSync) ==
    LET chatID == TrimSpace(roomID)
    IN  IF chatID = <<>> \/ roomSync.isNil THEN <<>>
        ELSE LET touched0 == roomSync.meta \/ roomSync.state \/ roomSync.accountData
                             \/ roomSync.timeline
                 acc == RoomEventsLoop(roomSync.events,
                            [touched |-> touched0, upserted |-> {}, deleted |-> {}])
             IN  (IF acc.touched
                  THEN <<DomainEvent(wsDomainTypeChatUpserted, chatID, <<chatID>>)>>
                  ELSE <<>>)
                 \o (IF acc.deleted # {}
                     THEN <<DomainEvent(wsDomainTypeMessageDeleted, chatID,
                                        mapKeysSorted(acc.deleted))>>
                     ELSE <<>>)
                 \o (IF acc.upserted # {}
                     THEN <<DomainEvent(wsDomainTypeMessageUpserted, chatID,
                                        mapKeysSorted(acc.upserted))>>
                     ELSE <<>>)

\* faulty variant: a timeline alone does not mark the room
RoomDomainEvents_NoTimeline(roomID, roomSync) ==
    LET chatID == TrimSpace(roomID)
    IN  IF chatID = <<>> \/ roomSync.isNil THEN <<>>
        ELSE LET touched0 == roomSync.meta \/ roomSync.state \/ roomSync.accountData
                 acc == RoomEventsLoop(roomSync.events,
                            [touched |-> touched0, upserted |-> {}, deleted |-> {}])
             IN  (IF acc.touched
                  THEN <<DomainEvent(wsDomainTypeChatUpserted, chatID, <<chatID>>)>>
                  ELSE <<>>)
                 \o (IF acc.upserted # {}
                     THEN <<DomainEvent(wsDomainTypeMessageUpserted, chatID,
                                        mapKeysSorted(acc.upserted))>>
                     ELSE <<>>)
                 \o (IF acc.deleted # {}
                     THEN <<DomainEvent(wsDomainTypeMessageDeleted, chatID,
                                        mapKeysSorted(acc.deleted))>>
                     ELSE <<>>)

\* the domain events of one touched room, in the order they are appended
RoomDomainEvents(roomID, roomSync) ==
    LET chatID == TrimSpace(roomID)
    IN  IF chatID = <<>> \/ roomSync.isNil THEN <<>>
        ELSE LET touched0 == roomSync.meta \/ roomSync.state \/ roomSync.accountData
                             \/ roomSync.timeline
                 acc == RoomEventsLoop(roomSync.events,
                            [touched |-> touched0, upserted |-> {}, deleted |-> {}])
             IN  (IF acc.touched
                  THEN <<DomainEvent(wsDomainTypeChatUpserted, chatID, <<chatID>>)>>
                  ELSE <<>>)
                 \o (IF acc.upserted # {}
                     THEN <<DomainEvent(wsDomainTypeMessageUpserted, chatID,
                                        mapKeysSorted(acc.upserted))>>
                     ELSE <<>>)
                 \o (IF acc.deleted # {}
                     THEN <<DomainEvent(wsDomainTypeMessageDeleted, chatID,
                                        mapKeysSorted(acc.deleted))>>
                     ELSE <<>>)

\* faulty variant: a left room with a blank ID is reported as well
RECURSIVE LeftRoomsLoop_KeepsBlank(_)
LeftRoomsLoop_KeepsBlank(leftRooms) ==
    IF leftRooms = <<>> THEN <<>>
    ELSE LET chatID == TrimSpace(Head(leftRooms))
         IN  <<DomainEvent(wsDomainTypeChatDeleted, chatID, <<chatID>>)>>
             \o LeftRoomsLoop_KeepsBlank(Tail(leftRooms))

\* the loop over syncComplete.LeftRooms
RECURSIVE LeftRoomsLoop(_)
LeftRoomsLoop(leftRooms) ==
    IF leftRooms = <<>> THEN <<>>
    ELSE LET chatID == TrimSpace(Head(leftRooms))
         IN  (IF chatID = <<>> THEN <<>>
              ELSE <<DomainEvent(wsDomainTypeChatDeleted, chatID, <<chatID>>)>>)
             \o LeftRoomsLoop(Tail(leftRooms))

\* the loop over syncComplete.Rooms, a Go map: roomOrder is the order in which
\* this iteration happens to visit the keys
RECURSIVE RoomsLoop(_, _)
RoomsLoop(rooms, roomOrder) ==
    IF roomOrder = <<>> THEN <<>>
    ELSE RoomDomainEvents(Head(roomOrder), rooms[Head(roomOrder)])
         \o RoomsLoop(rooms, Tail(roomOrder))

mapSyncCompleteToDomainEvents(syncComplete, roomOrder) ==
    LeftRoomsLoop(syncComplete.leftRooms) \o RoomsLoop(syncComplete.rooms, roomOrder)

\* the orders in which a Go map with key set S can be iterated
RECURSIVE KeyOrders(_)
KeyOrders(S) ==
    IF S = {} THEN {<<>>}
    ELSE UNION {{<<x>> \o o : o \in KeyOrders(S \ {x})} : x \in S}

\* ------------------------------------------------------------------ hydration

\* the message store as one hydration call finds it: cli is Runtime.Client()
\* being non-nil, room the room row being found, lookupErr buildAccountLookup
\* failing, msgs the stored events by ID with their room, content (text),
\* timestamp and whether mapEventToMessage skips them
MsgStore(cli, room, lookupErr, msgs) ==
    [cli |-> cli, room |-> room, lookupErr |-> lookupErr, msgs |-> msgs]

StoredMsg(roomID, text, timestamp, skip) ==
    [roomID |-> roomID, text |-> text, timestamp |-> timestamp, skip |-> skip]

\* first loop of hydrateMessagesForWSEvent: the IDs (trimmed, blanks and
\* repeats skipped) whose event is found in this room
RECURSIVE HydrateEventsLoop(_, _, _, _)
HydrateEventsLoop(messageIDs, seen, roomID, db) ==
    IF messageIDs = <<>> THEN <<>>
    ELSE LET messageID == TrimSpace(Head(messageIDs))
             rest == Tail(messageIDs)
         IN  IF messageID = <<>> \/ messageID \in seen
             THEN HydrateEventsLoop(rest, seen, roomID, db)
             ELSE (IF messageID \in DOMAIN db.msgs /\ db.msgs[messageID].roomID = roomID
                   THEN <<messageID>> ELSE <<>>)
                  \o HydrateEventsLoop(rest, seen \cup {messageID}, roomID, db)

\* the hydrated message (compatRecord) of a stored event
HydratedEntry(messageID, db) ==
    [id |-> messageID, text |-> db.msgs[messageID].text,
     timestamp |-> db.msgs[messageID].timestamp]

\* faulty variant: the output follows the map byID, here visited from the end
hydrateMessagesForWSEvent_MapOrder(chatID, messageIDs, db) ==
    IF ~db.cli \/ ~db.room THEN [err |-> FALSE, entries |-> <<>>]
    ELSE IF db.lookupErr THEN [err |-> TRUE, entries |-> <<>>]
    ELSE LET events == HydrateEventsLoop(messageIDs, {}, chatID, db)
             byID == {events[i] : i \in {j \in 1..Len(events) : ~db.msgs[events[j]].skip}}
             kept == SelectSeq(messageIDs, LAMBDA m : m \in byID)
         IN  [err |-> FALSE,
              entries |-> [i \in 1..Len(kept) |->
                              HydratedEntry(kept[Len(kept) + 1 - i], db)]]

\* hydrateMessagesForWSEvent: no client or no room gives nothing, a failing
\* account lookup an error; otherwise the events found in the room are mapped
\* (byID) and the output follows messageIDs
hydrateMessagesForWSEvent(chatID, messageIDs, db) ==
    IF ~db.cli \/ ~db.room THEN [err |-> FALSE, entries |-> <<>>]
    ELSE IF db.lookupErr THEN [err |-> TRUE, entries |-> <<>>]
    ELSE LET events == HydrateEventsLoop(messageIDs, {}, chatID, db)
             byID == {events[i] : i \in {j \in 1..Len(events) : ~db.msgs[events[j]].skip}}
             kept == SelectSeq(messageIDs, LAMBDA m : m \in byID)
         IN  [err |-> FALSE,
              entries |-> [i \in 1..Len(kept) |-> HydratedEntry(kept[i], db)]]

\* ---------------------------------------------------------------- fingerprint

\* normalizeForFingerprint, the map[string]any case: the keys "ts" and
\* "timestamp" removed
StripVolatile(record) ==
    [key \in (DOMAIN record) \ {"ts", "timestamp"} |-> record[key]]

\* normalizeForFingerprint on a value of dynamic type dynType: the type switch
\* has cases for []compatRecord, []any and map[string]any; any other type,
\* the defined type compatRecord among them, takes the default case and is
\* returned as it is
NormalizeTyped(dynType, typed) ==
    IF dynType = "map[string]any" THEN StripVolatile(typed) ELSE typed

\* normalizeForFingerprint on the hydrated entries, a []compatRecord: each
\* item is passed on with the dynamic type compatRecord
normalizeForFingerprint(entries) ==
    [i \in 1..Len(entries) |-> NormalizeTyped("compatRecord", entries[i])]

\* the JSON text of the normalized map, which encoding/json writes with sorted
\* keys; the record stands for that text (the encoding is injective); the
\* "entries" key is present only for a non-empty list
buildWSFingerprint(domainEvent, entries) ==
    [type |-> domainEvent.type, chatID |-> domainEvent.chatID, ids |-> domainEvent.ids,
     entries |-> IF Len(entries) > 0 THEN normalizeForFingerprint(entries) ELSE <<>>]

\* ---------------------------------------------------------------------- state

VARIABLES
    subscribeState,        \* subscribeOnce/subscribeErr: "none", "ok" or "err"
    subscribeCalls,        \* calls of SubscribeEvents made so far
    hubPc,                 \* wsHub.run: "off", "wait", "event" (between two domain
                           \* events of a batch), "hydrated" (targets and entries
                           \* known) or "send" (inside the target loop)
    eventQueue,            \* wsHub.eventQueue, the buffered channel
    curSerial,             \* serial of the batch being processed (0: none yet)
    domainEvents,          \* domain events of the batch still to dispatch
    curEvent,              \* locals of processSyncComplete for the event at hand:
                           \* domainEvent, err and entries of the hydration, now
    targets,               \* targets of curEvent not yet written to
    clients,               \* keys of wsHub.clients: the registered connections
    state,                 \* wsClientState of every connection created so far
    pc,                    \* wsEvents of each connection: "new", "ready", "loop",
                           \* "frame" (a frame read, not yet examined), "reply"
                           \* (subscription set, reply not yet written), "done"
    req,                   \* locals of wsEvents: the frame at hand (or the frame
                           \* last rejected) and, at "reply", requestID and
                           \* normalized
    closed,                \* connections whose transport is closed
    nframes,               \* frames read so far on each connection
    wire,                  \* per connection, the message last handed to wsjson.Write
                           \* with the outcome of that write (ok)
    nsent,                 \* per connection, how many messages were handed to it
    seqLog,                \* per connection, the seq values of the domain-event
                           \* messages handed to it, in the order of the writes
    srcLog,                \* per connection and for the same messages, which
                           \* batch (by its number of arrival) each came from
    clock,                 \* the last wall-clock reading
    recentFingerprints,    \* wsHub.recentFingerprints: fingerprint -> last seen
    lastFingerprintPrune,  \* wsHub.lastFingerprintPrune: <<>> is the zero time
    delivered,             \* payloads the protocol client has handed to the callback
    dropped,               \* serials of the payloads the callback discarded
    pingTicks,             \* keepalive ticks handled
    pingErr,               \* connections whose conn.Ping returned an error in the
                           \* last tick (the value pingClients assigns to _)
    writeMu,               \* per connection, the goroutine that holds
                           \* wsClientState.writeMu ("" when it is free)
    writing,               \* per connection, the goroutines with a write on its
                           \* transport in progress (wsjson.Write or conn.Ping)
    pingLeft,              \* the connections of pingClients' snapshot that are
                           \* still to be pinged in the tick under way
    mu,                    \* wsHub.mu: the goroutine holding it for writing
                           \* (w) and those holding it for reading (r)
    fingerprintMu,         \* wsHub.fingerprintMu: the goroutine holding it
    lockOps,               \* per goroutine, the lock operations the call it is
                           \* in has still to perform (SpecMutex)
    normPc, normIn, normAlt, normOut, normAltOut, normAgain   \* SpecNorm

hubVars == <<hubPc, eventQueue, curSerial, domainEvents, curEvent, targets>>
dedupVars == <<clock, recentFingerprints, lastFingerprintPrune>>
regVars == <<clients, state, closed, wire, nsent, seqLog, srcLog>>
connVars == <<pc, req, nframes>>
envVars == <<delivered, dropped>>
normVars == <<normPc, normIn, normAlt, normOut, normAltOut, normAgain>>
subVars == <<subscribeState, subscribeCalls>>
pingVars == <<pingTicks, pingErr>>
lockVars == <<writeMu, writing, pingLeft, mu, fingerprintMu, lockOps>>
vars == <<subVars, hubVars, dedupVars, regVars, connVars, envVars, pingVars, lockVars,
          normVars>>

\* the connections of a run; each WebSocket connects once
Conns == {1, 2}

\* ------------------------------------------------------------------- messages

NoEvent == DomainEvent("", <<>>, <<>>)

\* the locals of processSyncComplete outside the target loop
NoCurrent == [domainEvent |-> NoEvent, err |-> FALSE, entries |-> <<>>, now |-> 0]


\* a message given to wsHub.write; the fields a message type lacks are empty
Message(type) ==
    [type |-> type, ok |-> TRUE, seq |-> 0, ts |-> 0, requestID |-> <<>>, code |-> "",
     chatIDs |-> <<>>, chatID |-> <<>>, ids |-> <<>>, entries |-> <<>>]

\* nothing written yet
NoMessage == Message("")

wsReadyMessage == Message(wsReadyType)

wsSubscriptionsUpdatedMessage(requestID, chatIDs) ==
    [Message(wsSubscriptionsUpdatedType) EXCEPT !.requestID = requestID,
                                                !.chatIDs = chatIDs]

wsErrorMessage(requestID, code) ==
    [Message(wsErrorType) EXCEPT !.requestID = requestID, !.code = code]

wsDomainEventMessage(domainEvent, seq, now, entries) ==
    [Message(domainEvent.type) EXCEPT !.seq = seq, !.ts = now,
                                      !.chatID = domainEvent.chatID,
                                      !.ids = domainEvent.ids,
                                      !.entries = entries]

DomainTypes == {wsDomainTypeChatUpserted, wsDomainTypeChatDeleted,
                wsDomainTypeMessageUpserted, wsDomainTypeMessageDeleted}

\* ------------------------------------------------------------------ registry

\* wsjson.Write on a closed transport fails; on an open one it succeeds, fails
\* or times out
WriteOutcomes(c) == IF c \in closed THEN {FALSE} ELSE BOOLEAN

\* wsHub.write: the message goes to the transport; when the write fails the
\* connection is closed and unregistered
write(c, payload, ok) ==
    /\ wire' = [wire EXCEPT ![c] = [payload EXCEPT !.ok = ok]]
    /\ nsent' = [nsent EXCEPT ![c] = @ + 1]
    /\ seqLog' = [seqLog EXCEPT ![c] = IF payload.type \in DomainTypes
                                       THEN Append(@, payload.seq) ELSE @]
    /\ srcLog' = [srcLog EXCEPT ![c] = IF payload.type \in DomainTypes
                                       THEN Append(@, curSerial) ELSE @]
    /\ closed' = IF ok THEN closed ELSE closed \cup {c}
    /\ clients' = IF ok THEN clients ELSE clients \ {c}

\* wsHub.write around wsjson.Write: who (the handler of c, or the dispatch
\* loop, which writes to one target at a time) gets state.writeMu (taken now,
\* or held since LockWrite) and gives it back when the write has returned
Unlock(c, who) ==
    /\ writeMu[c] \in {"", who}
    /\ who = "hub" => \A d \in Conns \ {c} : writeMu[d] # "hub"
    /\ writeMu' = [writeMu EXCEPT ![c] = ""]
    /\ writing' = [writing EXCEPT ![c] = @ \ {who}]
    /\ UNCHANGED <<pingLeft, mu, fingerprintMu, lockOps>>

subscribedTargets(chatID) ==
    {c \in clients : isWSSubscribed(state[c].chatIDs, chatID)}

\* -------------------------------------------------------- duplicate suppressor

\* faulty variant: a pass at every recording, however recent the last one
pruneFingerprintsLocked_EveryRecording(recent, lastPrune, now) ==
    [recent |-> [f \in {g \in DOMAIN recent :
                           ~(now - recent[g] > wsFingerprintRetention)}
                    |-> recent[f]],
     lastPrune |-> <<now>>]

\* pruneFingerprintsLocked: at most one pass per wsFingerprintPruneInterval; the
\* zero lastFingerprintPrune lies further back than any interval
pruneFingerprintsLocked(recent, lastPrune, now) ==
    IF lastPrune # <<>> /\ now - lastPrune[1] < wsFingerprintPruneInterval
    THEN [recent |-> recent, lastPrune |-> lastPrune]
    ELSE [recent |-> [f \in {g \in DOMAIN recent :
                                ~(now - recent[g] > wsFingerprintRetention)}
                         |-> recent[f]],
          lastPrune |-> <<now>>]

\* faulty variant: an event that comes exactly wsDuplicateEventDebounce after
\* the last recording is suppressed as well
dropDuplicate_Inclusive(domainEvent, entries, now) ==
    LET fingerprint == buildWSFingerprint(domainEvent, entries)
        hasPrevious == fingerprint \in DOMAIN recentFingerprints
        pruned == pruneFingerprintsLocked((fingerprint :> now) @@ recentFingerprints,
                                          lastFingerprintPrune, now)
    IN  [drop |-> hasPrevious
                  /\ now - recentFingerprints[fingerprint] <= wsDuplicateEventDebounce,
         recent |-> pruned.recent, lastPrune |-> pruned.lastPrune]

\* faulty variant: a suppressed event leaves the time of its fingerprint as
\* it was
dropDuplicate_FixedWindow(domainEvent, entries, now) ==
    LET fingerprint == buildWSFingerprint(domainEvent, entries)
        hasPrevious == fingerprint \in DOMAIN recentFingerprints
        drop == hasPrevious
                /\ now - recentFingerprints[fingerprint] < wsDuplicateEventDebounce
        pruned == pruneFingerprintsLocked(IF drop THEN recentFingerprints
                                          ELSE (fingerprint :> now) @@ recentFingerprints,
                                          lastFingerprintPrune, now)
    IN  [drop |-> drop, recent |-> pruned.recent, lastPrune |-> pruned.lastPrune]

\* dropDuplicate: the verdict and the cache it leaves behind
dropDuplicate(domainEvent, entries, now) ==
    LET fingerprint == buildWSFingerprint(domainEvent, entries)
        hasPrevious == fingerprint \in DOMAIN recentFingerprints
        pruned == pruneFingerprintsLocked((fingerprint :> now) @@ recentFingerprints,
                                          lastFingerprintPrune, now)
    IN  [drop |-> hasPrevious
                  /\ now - recentFingerprints[fingerprint] < wsDuplicateEventDebounce,
         recent |-> pruned.recent, lastPrune |-> pruned.lastPrune]

\* ---------------------------------------------------------- connection handler

\* an inbound frame as wsEvents examines it: the frame type, how the text
\* parses ("invalid", "object", "other"), and for an object its type,
\* requestID and chatIDs values and whether it has any further key
Frame(messageType, json, hasType, typeOK, msgType, requestID, extraKey, chatIDs) ==
    [messageType |-> messageType, json |-> json, hasType |-> hasType,
     typeOK |-> typeOK, msgType |-> msgType, requestID |-> requestID,
     extraKey |-> extraKey, chatIDs |-> chatIDs]

SetFrame(requestID, chatIDs) ==
    Frame("text", "object", TRUE, TRUE, wsSubscriptionsCommandType, requestID, FALSE,
          JArr(chatIDs))

\* the locals of wsEvents before the first frame is read
NoRequest ==
    [frame |-> Frame("", "", FALSE, FALSE, "", JAbsent, FALSE, JAbsent),
     requestID |-> <<>>, normalized |-> <<>>]

ErrorResponse(requestID, code) ==
    [kind |-> "error", requestID |-> requestID, code |-> code, chatIDs |-> <<>>]

SetResponse(requestID, chatIDs) ==
    [kind |-> "set", requestID |-> requestID, code |-> "", chatIDs |-> chatIDs]

\* faulty variant: chatIDs is examined before the command type
FrameResponse_PayloadFirst(frame) ==
    LET requestID == IF frame.json = "object" /\ frame.requestID.k = "str"
                     THEN frame.requestID.v ELSE <<>>
        decoded == decodeWSChatIDs(frame.chatIDs)
        normalized == normalizeWSChatIDs(decoded.list)
    IN  IF frame.messageType # "text" \/ frame.json # "object"
        THEN ErrorResponse(<<>>, wsErrorCodeInvalidPayload)
        ELSE IF ~frame.hasType \/ ~frame.typeOK
        THEN ErrorResponse(requestID, wsErrorCodeInvalidPayload)
        ELSE IF ~decoded.ok
        THEN ErrorResponse(requestID, wsErrorCodeInvalidPayload)
        ELSE IF frame.msgType # wsSubscriptionsCommandType
        THEN ErrorResponse(requestID, wsErrorCodeInvalidCommand)
        ELSE IF frame.extraKey \/ frame.requestID.k \notin {"absent", "str"}
        THEN ErrorResponse(requestID, wsErrorCodeInvalidPayload)
        ELSE IF ~normalized.ok
        THEN ErrorResponse(requestID, wsErrorCodeInvalidPayload)
        ELSE SetResponse(requestID, normalized.list)

\* faulty variant: a rejected chatIDs list is answered with INVALID_COMMAND
FrameResponse_WrongCode(frame) ==
    LET requestID == IF frame.json = "object" /\ frame.requestID.k = "str"
                     THEN frame.requestID.v ELSE <<>>
        decoded == decodeWSChatIDs(frame.chatIDs)
        normalized == normalizeWSChatIDs(decoded.list)
    IN  IF frame.messageType # "text" \/ frame.json # "object"
        THEN ErrorResponse(<<>>, wsErrorCodeInvalidPayload)
        ELSE IF ~frame.hasType \/ ~frame.typeOK
        THEN ErrorResponse(requestID, wsErrorCodeInvalidPayload)
        ELSE IF frame.msgType # wsSubscriptionsCommandType
        THEN ErrorResponse(requestID, wsErrorCodeInvalidCommand)
        ELSE IF frame.extraKey \/ frame.requestID.k \notin {"absent", "str"}
        THEN ErrorResponse(requestID, wsErrorCodeInvalidPayload)
        ELSE IF ~decoded.ok
        THEN ErrorResponse(requestID, wsErrorCodeInvalidPayload)
        ELSE IF ~normalized.ok
        THEN ErrorResponse(requestID, wsErrorCodeInvalidCommand)
        ELSE SetResponse(requestID, normalized.list)

\* faulty variant: a key beyond type, requestID and chatIDs is let through
FrameResponse_AnyKey(frame) ==
    LET requestID == IF frame.json = "object" /\ frame.requestID.k = "str"
                     THEN frame.requestID.v ELSE <<>>
        decoded == decodeWSChatIDs(frame.chatIDs)
        normalized == normalizeWSChatIDs(decoded.list)
    IN  IF frame.messageType # "text" \/ frame.json # "object"
        THEN ErrorResponse(<<>>, wsErrorCodeInvalidPayload)
        ELSE IF ~frame.hasType \/ ~frame.typeOK
        THEN ErrorResponse(requestID, wsErrorCodeInvalidPayload)
        ELSE IF frame.msgType # wsSubscriptionsCommandType
        THEN ErrorResponse(requestID, wsErrorCodeInvalidCommand)
        ELSE IF frame.requestID.k \notin {"absent", "str"}
        THEN ErrorResponse(requestID, wsErrorCodeInvalidPayload)
        ELSE IF ~decoded.ok \/ ~normalized.ok
        THEN ErrorResponse(requestID, wsErrorCodeInvalidPayload)
        ELSE SetResponse(requestID, normalized.list)

\* the checks of one turn of the read loop of wsEvents, in the order of the
\* code: what the frame is answered with
FrameResponse(frame) ==
    LET requestID == IF frame.json = "object" /\ frame.requestID.k = "str"
                     THEN frame.requestID.v ELSE <<>>
        decoded == decodeWSChatIDs(frame.chatIDs)
        normalized == normalizeWSChatIDs(decoded.list)
    IN  IF frame.messageType # "text"
        THEN ErrorResponse(<<>>, wsErrorCodeInvalidPayload)
        ELSE IF frame.json = "invalid"
        THEN ErrorResponse(<<>>, wsErrorCodeInvalidPayload)
        ELSE IF frame.json # "object"
        THEN ErrorResponse(<<>>, wsErrorCodeInvalidPayload)
        ELSE IF ~frame.hasType \/ ~frame.typeOK
        THEN ErrorResponse(requestID, wsErrorCodeInvalidPayload)
        ELSE IF frame.msgType # wsSubscriptionsCommandType
        THEN ErrorResponse(requestID, wsErrorCodeInvalidCommand)
        ELSE IF frame.extraKey
        THEN ErrorResponse(requestID, wsErrorCodeInvalidPayload)
        ELSE IF frame.requestID.k \notin {"absent", "str"}
        THEN ErrorResponse(requestID, wsErrorCodeInvalidPayload)
        ELSE IF ~decoded.ok
        THEN ErrorResponse(requestID, wsErrorCodeInvalidPayload)
        ELSE IF ~normalized.ok
        THEN ErrorResponse(requestID, wsErrorCodeInvalidPayload)
        ELSE SetResponse(requestID, normalized.list)

\* faulty variant: a new connection continues the largest counter in use
NewClientState_Inherit ==
    [seq |-> IF DOMAIN state = {} THEN 0
             ELSE CHOOSE n \in {state[d].seq : d \in DOMAIN state} :
                      \A d \in DOMAIN state : state[d].seq <= n,
     chatIDs |-> <<>>]

\* faulty variant: a new connection is subscribed to every chat
NewClientState_Wildcard == [seq |-> 0, chatIDs |-> <<wsWildcardSubscriptionChatID>>]

\* wsClientState{chatIDs: []string{}}: seq is Go's zero value
NewClientState == [seq |-> 0, chatIDs |-> <<>>]

\* wsHub.register
register(c, clientState) ==
    /\ clients' = clients \cup {c}
    /\ state' = (c :> clientState) @@ state

\* faulty variant: a new subscription starts the numbering again
setSubscriptions_ResetsSeq(c, chatIDs) ==
    state' = IF c \in clients
             THEN [state EXCEPT ![c] = [seq |-> 0, chatIDs |-> chatIDs]]
             ELSE state

\* faulty variant: the subscription is replaced whether or not the
\* connection is still in the registry
setSubscriptions_Unregistered(c, chatIDs) ==
    state' = [state EXCEPT ![c].chatIDs = chatIDs]

\* faulty variant: the IDs are added to the ones already subscribed
setSubscriptions_Merge(c, chatIDs) ==
    state' = IF c \in clients
             THEN [state EXCEPT ![c].chatIDs = @ \o chatIDs]
             ELSE state

\* wsHub.setSubscriptions: only a connection still in the registry is changed
setSubscriptions(c, chatIDs) ==
    state' = IF c \in clients THEN [state EXCEPT ![c].chatIDs = chatIDs] ELSE state

\* faulty variant: every caller subscribes, there is no sync.Once
ensureSubscription_EveryCaller(started) ==
    [called |-> TRUE, outcome |-> IF started THEN "ok" ELSE "err"]

\* faulty variant: a failed subscribe is tried again by the next caller
ensureSubscription_Retry(started) ==
    IF subscribeState \in {"none", "err"}
    THEN [called |-> TRUE, outcome |-> IF started THEN "ok" ELSE "err"]
    ELSE [called |-> FALSE, outcome |-> subscribeState]

\* wsHub.ensureSubscription: the first caller calls SubscribeEvents, which
\* fails when the runtime is not started; every caller gets the outcome of
\* that one call
ensureSubscription(started) ==
    IF subscribeState = "none"
    THEN [called |-> TRUE, outcome |-> IF started THEN "ok" ELSE "err"]
    ELSE [called |-> FALSE, outcome |-> subscribeState]

\* wsEvents up to the registration: ensureSubscription (the first caller
\* subscribes; the runtime is started or not), then websocket.Accept, then
\* register.  A failed subscribe or upgrade ends the handler.
Connect(c, started, accepted) ==
    /\ pc[c] = "new"
    /\ LET once == ensureSubscription(started)
           outcome == once.outcome
       IN  /\ subscribeState' = outcome
           /\ subscribeCalls' = IF once.called THEN subscribeCalls + 1 ELSE subscribeCalls
           /\ hubPc' = IF once.called /\ outcome = "ok" THEN "wait" ELSE hubPc
           /\ IF outcome = "ok" /\ accepted
              THEN /\ register(c, NewClientState)
                   /\ pc' = [pc EXCEPT ![c] = "ready"]
              ELSE /\ pc' = [pc EXCEPT ![c] = "done"]
                   /\ UNCHANGED <<clients, state>>
    /\ UNCHANGED <<eventQueue, curSerial, domainEvents, curEvent, targets, dedupVars,
                   closed, wire, nsent, seqLog, srcLog, req, nframes, envVars,
                   pingVars, lockVars, normVars>>

\* the write of the ready message
WriteReady(c, ok) ==
    /\ pc[c] = "ready"
    /\ ok \in WriteOutcomes(c)
    /\ write(c, wsReadyMessage, ok)
    /\ Unlock(c, "handler")
    /\ pc' = [pc EXCEPT ![c] = "loop"]
    /\ UNCHANGED <<subVars, hubVars, dedupVars, state, req, nframes, envVars,
                   pingVars, normVars>>

\* conn.Read returns a frame; the transport is still open at that moment
ReadFrame(c, frame) ==
    /\ pc[c] = "loop"
    /\ c \notin closed
    /\ nframes' = [nframes EXCEPT ![c] = @ + 1]
    /\ req' = [req EXCEPT ![c] = [NoRequest EXCEPT !.frame = frame]]
    /\ pc' = [pc EXCEPT ![c] = "frame"]
    /\ UNCHANGED <<subVars, hubVars, dedupVars, regVars, envVars, pingVars,
                   lockVars, normVars>>

\* the rest of the turn of the read loop: the frame is answered with an
\* error or, when valid, stored with setSubscriptions
HandleFrame(c, ok) ==
    /\ pc[c] = "frame"
    /\ LET response == FrameResponse(req[c].frame)
       IN  IF response.kind = "error"
           THEN /\ ok \in WriteOutcomes(c)
                /\ write(c, wsErrorMessage(response.requestID, response.code), ok)
                /\ Unlock(c, "handler")
                /\ req' = [req EXCEPT ![c] = [NoRequest EXCEPT !.frame = req[c].frame]]
                /\ pc' = [pc EXCEPT ![c] = "loop"]
                /\ UNCHANGED state
           ELSE /\ ok = TRUE
                /\ setSubscriptions(c, response.chatIDs)
                /\ pc' = [pc EXCEPT ![c] = "reply"]
                /\ req' = [req EXCEPT ![c] = [frame |-> req[c].frame,
                                              requestID |-> response.requestID,
                                              normalized |-> response.chatIDs]]
                /\ UNCHANGED <<clients, closed, wire, nsent, seqLog, srcLog, lockVars>>
    /\ UNCHANGED <<subVars, hubVars, dedupVars, nframes, envVars, pingVars,
                   normVars>>

\* the subscriptions.updated reply that follows setSubscriptions
WriteUpdated(c, ok) ==
    /\ pc[c] = "reply"
    /\ ok \in WriteOutcomes(c)
    /\ write(c, wsSubscriptionsUpdatedMessage(req[c].requestID, req[c].normalized), ok)
    /\ Unlock(c, "handler")
    /\ pc' = [pc EXCEPT ![c] = "loop"]
    /\ req' = [req EXCEPT ![c] = NoRequest]
    /\ UNCHANGED <<subVars, hubVars, dedupVars, state, nframes, envVars,
                   pingVars, normVars>>

\* conn.Read fails (the peer went away, or the transport was closed after a
\* failed write): the deferred unregister and Close, and the handler returns
ReadError(c) ==
    /\ pc[c] = "loop"
    /\ pc' = [pc EXCEPT ![c] = "done"]
    /\ clients' = clients \ {c}
    /\ closed' = closed \cup {c}
    /\ UNCHANGED <<subVars, hubVars, dedupVars, state, wire, nsent, seqLog, srcLog,
                   req, nframes, envVars, pingVars, lockVars, normVars>>

\* ------------------------------------------------------------- sync callback

\* faulty variant: with the queue full the oldest payload makes room
SyncCallback_DropOldest(payload) ==
    /\ subscribeState = "ok"
    /\ delivered' = delivered + 1
    /\ IF Len(eventQueue) < wsEventQueueSize
       THEN /\ eventQueue' = Append(eventQueue, [payload EXCEPT !.serial = delivered + 1])
            /\ dropped' = dropped
       ELSE /\ eventQueue' = Append(Tail(eventQueue),
                                    [payload EXCEPT !.serial = delivered + 1])
            /\ dropped' = dropped \cup {delivered + 1}
    /\ UNCHANGED <<subVars, hubPc, curSerial, domainEvents, curEvent, targets,
                   dedupVars, regVars, connVars, pingVars, lockVars, normVars>>

\* the callback given to SubscribeEvents: a non-blocking send on eventQueue;
\* with the queue full the payload is discarded
SyncCallback(payload) ==
    /\ subscribeState = "ok"
    /\ delivered' = delivered + 1
    /\ IF Len(eventQueue) < wsEventQueueSize
       THEN /\ eventQueue' = Append(eventQueue, [payload EXCEPT !.serial = delivered + 1])
            /\ dropped' = dropped
       ELSE /\ eventQueue' = eventQueue
            /\ dropped' = dropped \cup {delivered + 1}
    /\ UNCHANGED <<subVars, hubPc, curSerial, domainEvents, curEvent, targets,
                   dedupVars, regVars, connVars, pingVars, lockVars, normVars>>

\* ------------------------------------------------------------- dispatch loop

\* where the loop of processSyncComplete stands once an event is finished
AfterEvent(rest) == IF rest = <<>> THEN "wait" ELSE "event"

\* faulty variant: the payload accepted last is taken first
HubDequeue_Newest(roomOrder) ==
    /\ hubPc = "wait"
    /\ eventQueue # <<>>
    /\ LET evt == eventQueue[Len(eventQueue)]
       IN  /\ eventQueue' = SubSeq(eventQueue, 1, Len(eventQueue) - 1)
           /\ curSerial' = evt.serial
           /\ IF evt.kind # "SyncComplete"
              THEN /\ roomOrder = <<>>
                   /\ UNCHANGED <<hubPc, domainEvents>>
              ELSE /\ roomOrder \in KeyOrders(DOMAIN evt.rooms)
                   /\ domainEvents' = mapSyncCompleteToDomainEvents(evt, roomOrder)
                   /\ hubPc' = AfterEvent(domainEvents')
    /\ UNCHANGED <<subVars, curEvent, targets, dedupVars, regVars, connVars,
                   envVars, pingVars, lockVars, normVars>>

\* wsHub.run takes a payload off the queue; anything but a SyncComplete is
\* ignored, a SyncComplete is mapped to its domain events
HubDequeue(roomOrder) ==
    /\ hubPc = "wait"
    /\ eventQueue # <<>>
    /\ LET evt == Head(eventQueue)
       IN  /\ eventQueue' = Tail(eventQueue)
           /\ curSerial' = evt.serial
           /\ IF evt.kind # "SyncComplete"
              THEN /\ roomOrder = <<>>
                   /\ UNCHANGED <<hubPc, domainEvents>>
              ELSE /\ roomOrder \in KeyOrders(DOMAIN evt.rooms)
                   /\ domainEvents' = mapSyncCompleteToDomainEvents(evt, roomOrder)
                   /\ hubPc' = AfterEvent(domainEvents')
    /\ UNCHANGED <<subVars, curEvent, targets, dedupVars, regVars, connVars,
                   envVars, pingVars, lockVars, normVars>>

\* faulty variant: only a hydration error drops the event
HydrationDrops_ErrorOnly(domainEvent, hydrated) ==
    /\ domainEvent.type = wsDomainTypeMessageUpserted
    /\ hydrated.err

\* the test after the hydration: a message.upserted without entries is dropped
HydrationDrops(domainEvent, hydrated) ==
    /\ domainEvent.type = wsDomainTypeMessageUpserted
    /\ (hydrated.err \/ Len(hydrated.entries) = 0)

\* faulty variant: the fingerprint of an event is recorded before its targets
\* are looked up
HubHydrate_FingerprintFirst(db) ==
    /\ hubPc = "event"
    /\ LET domainEvent == Head(domainEvents)
           rest == Tail(domainEvents)
           found == subscribedTargets(domainEvent.chatID)
           hydrated == IF domainEvent.type = wsDomainTypeMessageUpserted
                       THEN hydrateMessagesForWSEvent(domainEvent.chatID,
                                                      domainEvent.ids, db)
                       ELSE [err |-> FALSE, entries |-> <<>>]
       IN  /\ domainEvents' = rest
           /\ IF found = {}
              THEN /\ hubPc' = AfterEvent(rest)
                   /\ recentFingerprints' =
                          (buildWSFingerprint(domainEvent, <<>>) :> clock)
                              @@ recentFingerprints
                   /\ UNCHANGED <<curEvent, targets>>
              ELSE /\ hubPc' = "hydrated"
                   /\ targets' = found
                   /\ curEvent' = [domainEvent |-> domainEvent, err |-> hydrated.err,
                                   entries |-> hydrated.entries, now |-> 0]
                   /\ UNCHANGED recentFingerprints
    /\ UNCHANGED <<subVars, eventQueue, curSerial, clock, lastFingerprintPrune, regVars,
                   connVars, envVars, pingVars, lockVars, normVars>>

\* processSyncComplete for the next domain event, first part: the targets are
\* computed and, if there are any, a message.upserted is hydrated from the
\* message store as it is found (db)
HubHydrate(db) ==
    /\ hubPc = "event"
    /\ LET domainEvent == Head(domainEvents)
           rest == Tail(domainEvents)
           found == subscribedTargets(domainEvent.chatID)
           hydrated == IF domainEvent.type = wsDomainTypeMessageUpserted
                       THEN hydrateMessagesForWSEvent(domainEvent.chatID,
                                                      domainEvent.ids, db)
                       ELSE [err |-> FALSE, entries |-> <<>>]
       IN  /\ domainEvents' = rest
           /\ IF found = {}
              THEN /\ hubPc' = AfterEvent(rest)
                   /\ UNCHANGED <<curEvent, targets>>
              ELSE /\ hubPc' = "hydrated"
                   /\ targets' = found
                   /\ curEvent' = [domainEvent |-> domainEvent, err |-> hydrated.err,
                                   entries |-> hydrated.entries, now |-> 0]
    /\ UNCHANGED <<subVars, eventQueue, curSerial, dedupVars, regVars, connVars,
                   envVars, pingVars, lockVars, normVars>>

\* faulty variant: a duplicate is kept from the connections that have been
\* sent an event before, and goes to the targets that have not
HubSuppress_PerConnection(step) ==
    /\ hubPc = "hydrated"
    /\ LET now == clock + step
           verdict == dropDuplicate(curEvent.domainEvent, curEvent.entries, now)
           fresh == {c \in targets : state[c].seq = 0}
       IN  IF HydrationDrops(curEvent.domainEvent, curEvent)
           THEN /\ hubPc' = AfterEvent(domainEvents)
                /\ curEvent' = NoCurrent
                /\ targets' = {}
                /\ UNCHANGED dedupVars
           ELSE /\ clock' = now
                /\ recentFingerprints' = verdict.recent
                /\ lastFingerprintPrune' = verdict.lastPrune
                /\ IF verdict.drop /\ fresh = {}
                   THEN /\ hubPc' = AfterEvent(domainEvents)
                        /\ curEvent' = NoCurrent
                        /\ targets' = {}
                   ELSE /\ hubPc' = "send"
                        /\ curEvent' = [curEvent EXCEPT !.now = now]
                        /\ targets' = IF verdict.drop THEN fresh ELSE targets
    /\ UNCHANGED <<subVars, eventQueue, curSerial, domainEvents, regVars,
                   connVars, envVars, pingVars, lockVars, normVars>>

\* faulty variant: the targets' counters are advanced before the duplicate
\* suppressor decides, so a suppressed event uses up a seq
HubSuppress_CountsSuppressed(step) ==
    /\ hubPc = "hydrated"
    /\ LET now == clock + step
           verdict == dropDuplicate(curEvent.domainEvent, curEvent.entries, now)
       IN  IF HydrationDrops(curEvent.domainEvent, curEvent)
           THEN /\ hubPc' = AfterEvent(domainEvents)
                /\ curEvent' = NoCurrent
                /\ targets' = {}
                /\ UNCHANGED <<dedupVars, state>>
           ELSE /\ clock' = now
                /\ recentFingerprints' = verdict.recent
                /\ lastFingerprintPrune' = verdict.lastPrune
                /\ IF verdict.drop
                   THEN /\ hubPc' = AfterEvent(domainEvents)
                        /\ curEvent' = NoCurrent
                        /\ targets' = {}
                        /\ state' = [c \in DOMAIN state |->
                                         IF c \in targets
                                         THEN [state[c] EXCEPT !.seq = @ + 1]
                                         ELSE state[c]]
                   ELSE /\ hubPc' = "send"
                        /\ curEvent' = [curEvent EXCEPT !.now = now]
                        /\ targets' = targets
                        /\ state' = state
    /\ UNCHANGED <<subVars, eventQueue, curSerial, domainEvents, clients, closed, wire,
                   nsent, seqLog, srcLog, connVars, envVars, pingVars, lockVars,
                   normVars>>

\* second part: an empty hydration drops the event; otherwise the clock is
\* read (step after the last reading) and the duplicate suppressor decides
\* whether the target loop is entered
HubSuppress(step) ==
    /\ hubPc = "hydrated"
    /\ LET now == clock + step
           verdict == dropDuplicate(curEvent.domainEvent, curEvent.entries, now)
       IN  IF HydrationDrops(curEvent.domainEvent, curEvent)
           THEN /\ hubPc' = AfterEvent(domainEvents)
                /\ curEvent' = NoCurrent
                /\ targets' = {}
                /\ UNCHANGED dedupVars
           ELSE /\ clock' = now
                /\ recentFingerprints' = verdict.recent
                /\ lastFingerprintPrune' = verdict.lastPrune
                /\ IF verdict.drop
                   THEN /\ hubPc' = AfterEvent(domainEvents)
                        /\ curEvent' = NoCurrent
                        /\ targets' = {}
                   ELSE /\ hubPc' = "send"
                        /\ curEvent' = [curEvent EXCEPT !.now = now]
                        /\ targets' = targets
    /\ UNCHANGED <<subVars, eventQueue, curSerial, domainEvents, regVars,
                   connVars, envVars, pingVars, lockVars, normVars>>

\* faulty variant: the counter is not advanced
NextSeq_Stuck(c) == state[c].seq

\* the counter of the target that is written to
NextSeq(c) == state[c].seq + 1

\* faulty variant: there is no write timeout, and a write on a transport
\* that is already closed never returns
HubSend_Blocking(c, ok) ==
    /\ hubPc = "send"
    /\ c \in targets
    /\ c \notin closed
    /\ ok \in WriteOutcomes(c)
    /\ state' = [state EXCEPT ![c].seq = NextSeq(c)]
    /\ write(c, wsDomainEventMessage(curEvent.domainEvent, state'[c].seq, curEvent.now,
                                     curEvent.entries), ok)
    /\ Unlock(c, "hub")
    /\ targets' = targets \ {c}
    /\ hubPc' = IF targets' = {} THEN AfterEvent(domainEvents) ELSE "send"
    /\ curEvent' = IF targets' = {} THEN NoCurrent ELSE curEvent
    /\ UNCHANGED <<subVars, eventQueue, curSerial, domainEvents, dedupVars,
                   connVars, envVars, pingVars, normVars>>

\* faulty variant: a failed write ends the fan-out of the event
HubSend_AbortOnError(c, ok) ==
    /\ hubPc = "send"
    /\ c \in targets
    /\ ok \in WriteOutcomes(c)
    /\ state' = [state EXCEPT ![c].seq = NextSeq(c)]
    /\ write(c, wsDomainEventMessage(curEvent.domainEvent, state'[c].seq, curEvent.now,
                                     curEvent.entries), ok)
    /\ Unlock(c, "hub")
    /\ targets' = IF ok THEN targets \ {c} ELSE {}
    /\ hubPc' = IF targets' = {} THEN AfterEvent(domainEvents) ELSE "send"
    /\ curEvent' = IF targets' = {} THEN NoCurrent ELSE curEvent
    /\ UNCHANGED <<subVars, eventQueue, curSerial, domainEvents, dedupVars,
                   connVars, envVars, pingVars, normVars>>

\* one turn of the target loop: the target's seq is incremented and the
\* message written
HubSend(c, ok) ==
    /\ hubPc = "send"
    /\ c \in targets
    /\ ok \in WriteOutcomes(c)
    /\ state' = [state EXCEPT ![c].seq = NextSeq(c)]
    /\ write(c, wsDomainEventMessage(curEvent.domainEvent, state'[c].seq, curEvent.now,
                                     curEvent.entries), ok)
    /\ Unlock(c, "hub")
    /\ targets' = targets \ {c}
    /\ hubPc' = IF targets' = {} THEN AfterEvent(domainEvents) ELSE "send"
    /\ curEvent' = IF targets' = {} THEN NoCurrent ELSE curEvent
    /\ UNCHANGED <<subVars, eventQueue, curSerial, domainEvents, dedupVars,
                   connVars, envVars, pingVars, normVars>>

\* faulty variant: a connection whose ping fails is closed and unregistered
pingClients_Teardown(failed, torn) ==
    /\ hubPc = "wait"
    /\ failed \subseteq clients
    /\ clients \cap closed \subseteq failed
    /\ torn \subseteq failed
    /\ pingTicks' = pingTicks + 1
    /\ pingErr' = failed
    /\ closed' = closed \cup failed
    /\ clients' = clients \ failed
    /\ UNCHANGED <<subVars, hubVars, dedupVars, state, wire, nsent, seqLog,
                   srcLog, connVars, envVars, lockVars, normVars>>

\* the keepalive tick: every registered connection is pinged and the error
\* of conn.Ping is discarded.  failed: the connections whose ping returns an
\* error (a closed transport always does); torn: those of them whose
\* transport the websocket library closed on the failure
pingClients(failed, torn) ==
    /\ hubPc = "wait"
    /\ failed \subseteq clients
    /\ clients \cap closed \subseteq failed
    /\ torn \subseteq failed
    /\ pingTicks' = pingTicks + 1
    /\ pingErr' = failed
    /\ closed' = closed \cup torn
    /\ UNCHANGED <<subVars, hubVars, dedupVars, clients, state, wire, nsent, seqLog,
                   srcLog, connVars, envVars, lockVars, normVars>>

\* ------------------------------------------------- writes and pings under way

\* wsHub.write up to the call of wsjson.Write.  who: the handler of c, which
\* stands before one of its calls of wsHub.write, or the dispatch loop before
\* the write to target c.  state.writeMu is free and is taken, and the write
\* is under way until the action that completes it
LockWrite(c, who) ==
    /\ \/ /\ who = "handler"
          /\ \/ pc[c] \in {"ready", "reply"}
             \/ pc[c] = "frame" /\ FrameResponse(req[c].frame).kind = "error"
       \/ /\ who = "hub"
          /\ hubPc = "send"
          /\ c \in targets
    /\ writeMu[c] = ""
    /\ who = "hub" => \A d \in Conns : writeMu[d] # "hub"
    /\ writeMu' = [writeMu EXCEPT ![c] = who]
    /\ writing' = [writing EXCEPT ![c] = @ \cup {who}]
    /\ UNCHANGED <<subVars, hubVars, dedupVars, regVars, connVars, envVars, pingVars,
                   pingLeft, mu, fingerprintMu, lockOps, normVars>>

\* pingClients, first part: the keepalive tick fires and the registered
\* connections are copied under the read lock
PingSnapshot ==
    /\ hubPc = "wait"
    /\ pingTicks' = pingTicks + 1
    /\ pingErr' = {}
    /\ pingLeft' = clients
    /\ hubPc' = IF clients = {} THEN "wait" ELSE "ping"
    /\ UNCHANGED <<subVars, eventQueue, curSerial, domainEvents, curEvent, targets,
                   dedupVars, regVars, connVars, envVars, writeMu, writing, mu,
                   fingerprintMu, lockOps, normVars>>

\* conn.Ping is called for a connection of the snapshot; state.writeMu is
\* neither tested nor taken
BeginPing(c) ==
    /\ hubPc = "ping"
    /\ c \in pingLeft
    /\ \A d \in Conns : "ping" \notin writing[d]
    /\ writing' = [writing EXCEPT ![c] = @ \cup {"ping"}]
    /\ UNCHANGED <<subVars, hubVars, dedupVars, regVars, connVars, envVars, pingVars,
                   writeMu, pingLeft, mu, fingerprintMu, lockOps, normVars>>

\* conn.Ping returns, with an error or not (failed; a closed transport
\* always fails), the transport closed by the library or not (torn); the
\* error is discarded and the loop goes to the next connection
EndPing(c, failed, torn) ==
    /\ hubPc = "ping"
    /\ "ping" \in writing[c]
    /\ c \in closed => failed
    /\ torn => failed
    /\ writing' = [writing EXCEPT ![c] = @ \ {"ping"}]
    /\ pingLeft' = pingLeft \ {c}
    /\ pingErr' = IF failed THEN pingErr \cup {c} ELSE pingErr
    /\ closed' = IF torn THEN closed \cup {c} ELSE closed
    /\ hubPc' = IF pingLeft' = {} THEN "wait" ELSE "ping"
    /\ UNCHANGED <<subVars, eventQueue, curSerial, domainEvents, curEvent, targets,
                   dedupVars, clients, state, wire, nsent, seqLog, srcLog, connVars,
                   envVars, pingTicks, writeMu, mu, fingerprintMu, lockOps, normVars>>

\* ------------------------------------------------------------------ the locks

\* The goroutines that take locks: 0 is the dispatch loop (wsHub.run, which
\* also pings), c > 0 the handler of connection c.  A lock operation is a
\* record of the operation, the lock and, for writeMu, the connection.

\* faulty variant: the failed connection is unregistered before writeMu is
\* given back
writeLockOps_UnregisterLocked(c, failed) ==
    <<[op |-> "Lock", lock |-> "writeMu", conn |-> c]>>
    \o (IF failed THEN <<[op |-> "Lock", lock |-> "mu", conn |-> 0],
                         [op |-> "Unlock", lock |-> "mu", conn |-> 0]>>
        ELSE <<>>)
    \o <<[op |-> "Unlock", lock |-> "writeMu", conn |-> c]>>

\* the lock operations of wsHub.write, in order: writeMu around wsjson.Write;
\* after a failed write, unregister takes and gives back the registry lock
writeLockOps(c, failed) ==
    <<[op |-> "Lock", lock |-> "writeMu", conn |-> c],
      [op |-> "Unlock", lock |-> "writeMu", conn |-> c]>>
    \o (IF failed THEN <<[op |-> "Lock", lock |-> "mu", conn |-> 0],
                         [op |-> "Unlock", lock |-> "mu", conn |-> 0]>>
        ELSE <<>>)

\* the calls a goroutine makes that take a lock, each as its lock operations
\* in order.  The dispatch loop: subscribedTargets and pingClients (read lock
\* of the registry, given back before any ping), dropDuplicate with
\* pruneFingerprintsLocked (fingerprintMu), write to a target.  A handler:
\* register, setSubscriptions and unregister (registry lock), write to its
\* own connection
LockCalls(g) ==
    IF g = 0
    THEN {<<[op |-> "RLock", lock |-> "mu", conn |-> 0],
            [op |-> "RUnlock", lock |-> "mu", conn |-> 0]>>,
          <<[op |-> "Lock", lock |-> "fingerprintMu", conn |-> 0],
            [op |-> "Unlock", lock |-> "fingerprintMu", conn |-> 0]>>}
         \cup {writeLockOps(c, failed) : c \in Conns, failed \in BOOLEAN}
    ELSE {<<[op |-> "Lock", lock |-> "mu", conn |-> 0],
            [op |-> "Unlock", lock |-> "mu", conn |-> 0]>>}
         \cup {writeLockOps(g, failed) : failed \in BOOLEAN}

\* a goroutine that is in none of these calls enters one
Call(g, ops) ==
    /\ lockOps[g] = <<>>
    /\ ops \in LockCalls(g)
    /\ lockOps' = [lockOps EXCEPT ![g] = ops]
    /\ UNCHANGED <<subVars, hubVars, dedupVars, regVars, connVars, envVars, pingVars,
                   writeMu, writing, pingLeft, mu, fingerprintMu, normVars>>

\* Lock and RLock return: a sync.Mutex is free; a sync.RWMutex has no holder
\* (Lock) or no writer (RLock)
Acquire(g) ==
    /\ lockOps[g] # <<>>
    /\ LET o == Head(lockOps[g])
       IN  /\ o.op \in {"Lock", "RLock"}
           /\ CASE o.lock = "mu" /\ o.op = "Lock" ->
                       /\ mu.w = {} /\ mu.r = {}
                       /\ mu' = [mu EXCEPT !.w = {g}]
                       /\ UNCHANGED <<fingerprintMu, writeMu>>
                [] o.lock = "mu" /\ o.op = "RLock" ->
                       /\ mu.w = {}
                       /\ mu' = [mu EXCEPT !.r = @ \cup {g}]
                       /\ UNCHANGED <<fingerprintMu, writeMu>>
                [] o.lock = "fingerprintMu" ->
                       /\ fingerprintMu = {}
                       /\ fingerprintMu' = {g}
                       /\ UNCHANGED <<mu, writeMu>>
                [] o.lock = "writeMu" ->
                       /\ writeMu[o.conn] = ""
                       /\ writeMu' = [writeMu EXCEPT ![o.conn] =
                                          IF g = 0 THEN "hub" ELSE "handler"]
                       /\ UNCHANGED <<mu, fingerprintMu>>
    /\ lockOps' = [lockOps EXCEPT ![g] = Tail(@)]
    /\ UNCHANGED <<subVars, hubVars, dedupVars, regVars, connVars, envVars, pingVars,
                   writing, pingLeft, normVars>>

\* Unlock and RUnlock
Release(g) ==
    /\ lockOps[g] # <<>>
    /\ LET o == Head(lockOps[g])
       IN  /\ o.op \in {"Unlock", "RUnlock"}
           /\ CASE o.lock = "mu" ->
                       /\ mu' = [w |-> mu.w \ {g}, r |-> mu.r \ {g}]
                       /\ UNCHANGED <<fingerprintMu, writeMu>>
                [] o.lock = "fingerprintMu" ->
                       /\ fingerprintMu' = fingerprintMu \ {g}
                       /\ UNCHANGED <<mu, writeMu>>
                [] o.lock = "writeMu" ->
                       /\ writeMu' = [writeMu EXCEPT ![o.conn] = ""]
                       /\ UNCHANGED <<mu, fingerprintMu>>
    /\ lockOps' = [lockOps EXCEPT ![g] = Tail(@)]
    /\ UNCHANGED <<subVars, hubVars, dedupVars, regVars, connVars, envVars, pingVars,
                   writing, pingLeft, normVars>>

\* --------------------------------------------------------------------- inputs

\* "a", "b": chat (room) IDs; "m": a message ID; "r": a requestID
ChatA == <<97>>
ChatB == <<98>>
MsgM == <<109>>
ReqR == <<114>>

\* a payload of the protocol client: a *jsoncmd.SyncComplete with its left
\* rooms and its map of touched rooms, or an event of another kind
SyncComplete(leftRooms, rooms) ==
    [kind |-> "SyncComplete", serial |-> 0, leftRooms |-> leftRooms, rooms |-> rooms]

OtherPayload == [kind |-> "other", serial |-> 0, leftRooms |-> <<>>, rooms |-> <<>>]

\* a message m in room a
MessageInA ==
    SyncComplete(<<>>,
        (ChatA :> SyncRoom(FALSE, FALSE, FALSE, TRUE,
                           <<RawEvent("m.room.message", MsgM, <<>>, "", <<>>)>>)))

\* a name change of room b
RenameB ==
    SyncComplete(<<>>,
        (ChatB :> SyncRoom(FALSE, FALSE, FALSE, FALSE,
                           <<RawEvent("m.room.name", <<110>>, <<>>, "", <<>>)>>)))

\* both in one batch
MessageInAAndRenameB ==
    SyncComplete(<<>>, MessageInA.rooms @@ RenameB.rooms)

\* room b left
LeftB == SyncComplete(<<ChatB>>, <<>>)

\* subscriptions.set frames
SetA == SetFrame(JStr(ReqR), <<JStr(ChatA)>>)
SetWildcard == SetFrame(JAbsent, <<JStr(wsWildcardSubscriptionChatID)>>)
SetUnsorted == SetFrame(JAbsent, <<JStr(ChatB), JStr(<<32, 97>>), JStr(ChatA), JStr(<<32>>)>>)
SetMixed == SetFrame(JStr(ReqR), <<JStr(wsWildcardSubscriptionChatID), JStr(ChatA)>>)
SetMixedBlank == SetFrame(JAbsent, <<JStr(<<32, 42>>), JStr(<<32>>), JStr(ChatB)>>)
SetNone == SetFrame(JStr(ReqR), <<>>)
BinaryFrame == Frame("binary", "invalid", FALSE, FALSE, "", JAbsent, FALSE, JAbsent)
UnknownCommand == Frame("text", "object", TRUE, TRUE, "ping", JStr(ReqR), FALSE, JAbsent)

\* frames that break the protocol in the other ways: text that is not JSON,
\* JSON that is not an object, an object without type, with a numeric type,
\* with a key beyond type, requestID and chatIDs, with a numeric requestID,
\* without chatIDs, with chatIDs that is a string, or an array holding a number
BadJSON == Frame("text", "invalid", FALSE, FALSE, "", JAbsent, FALSE, JAbsent)
NonObject == Frame("text", "other", FALSE, FALSE, "", JAbsent, FALSE, JAbsent)
MissingType == Frame("text", "object", FALSE, FALSE, "", JStr(ReqR), FALSE,
                     JArr(<<JStr(ChatA)>>))
NonStringType == Frame("text", "object", TRUE, FALSE, "", JStr(ReqR), FALSE,
                       JArr(<<JStr(ChatA)>>))
ExtraKey == Frame("text", "object", TRUE, TRUE, wsSubscriptionsCommandType, JStr(ReqR),
                  TRUE, JArr(<<JStr(ChatA)>>))
NumericRequestID == Frame("text", "object", TRUE, TRUE, wsSubscriptionsCommandType, JNum,
                          FALSE, JArr(<<JStr(ChatA)>>))
ChatIDsMissing == Frame("text", "object", TRUE, TRUE, wsSubscriptionsCommandType,
                        JStr(ReqR), FALSE, JAbsent)
ChatIDsNotArray == Frame("text", "object", TRUE, TRUE, wsSubscriptionsCommandType,
                         JStr(ReqR), FALSE, JStr(ChatA))
ChatIDsNotStrings == SetFrame(JStr(ReqR), <<JStr(ChatA), JNum>>)

\* one frame of every kind the read loop rejects
RejectedFrames ==
    {BinaryFrame, BadJSON, NonObject, MissingType, NonStringType, UnknownCommand,
     ExtraKey, NumericRequestID, ChatIDsMissing, ChatIDsNotArray, ChatIDsNotStrings,
     SetMixed}

\* the message store as a hydration may find it: message m of room a with
\* some content and timestamp, m missing, or the account lookup failing
StoreFound == MsgStore(TRUE, TRUE, FALSE, (MsgM :> StoredMsg(ChatA, 1, 10, FALSE)))
StoreLater == MsgStore(TRUE, TRUE, FALSE, (MsgM :> StoredMsg(ChatA, 1, 20, FALSE)))
StoreEdited == MsgStore(TRUE, TRUE, FALSE, (MsgM :> StoredMsg(ChatA, 2, 20, FALSE)))
StoreMissing == MsgStore(TRUE, TRUE, FALSE, <<>>)
StoreFailing == MsgStore(TRUE, TRUE, TRUE, <<>>)

\* ------------------------------------------------------------- specification

NormIdle ==
    /\ normPc = "idle"
    /\ normIn = <<>>
    /\ normAlt = <<>>
    /\ normOut = [ok |-> TRUE, list |-> <<>>]
    /\ normAltOut = [ok |-> TRUE, list |-> <<>>]
    /\ normAgain = [ok |-> TRUE, list |-> <<>>]

HubInit ==
    /\ subscribeState = "none"
    /\ subscribeCalls = 0
    /\ hubPc = "off"
    /\ eventQueue = <<>>
    /\ curSerial = 0
    /\ domainEvents = <<>>
    /\ curEvent = NoCurrent
    /\ targets = {}
    /\ clients = {}
    /\ state = <<>>
    /\ pc = [c \in Conns |-> "new"]
    /\ req = [c \in Conns |-> NoRequest]
    /\ closed = {}
    /\ nframes = [c \in Conns |-> 0]
    /\ wire = [c \in Conns |-> NoMessage]
    /\ nsent = [c \in Conns |-> 0]
    /\ seqLog = [c \in Conns |-> <<>>]
    /\ srcLog = [c \in Conns |-> <<>>]
    /\ clock = 0
    /\ recentFingerprints = <<>>
    /\ lastFingerprintPrune = <<>>
    /\ delivered = 0
    /\ dropped = {}
    /\ pingTicks = 0
    /\ pingErr = {}
    /\ writeMu = [c \in Conns |-> ""]
    /\ writing = [c \in Conns |-> {}]
    /\ pingLeft = {}
    /\ mu = [w |-> {}, r |-> {}]
    /\ fingerprintMu = {}
    /\ lockOps = [g \in {0} \cup Conns |-> <<>>]

Init == HubInit /\ NormIdle

\* the inputs consumed so far
InputsUsed == nframes[1] + nframes[2] + delivered + pingTicks

\* two connections, the queue, the dispatch loop and the keepalive ticker; the
\* frames are valid, and a reply fails only on a transport already closed
Next ==
    \/ \E c \in Conns : Connect(c, TRUE, TRUE)
    \/ \E c \in Conns, ok \in BOOLEAN : WriteReady(c, ok)
    \/ \E c \in Conns, frame \in {SetA, SetWildcard} :
           InputsUsed < MaxInputs /\ ReadFrame(c, frame)
    \/ \E c \in Conns : HandleFrame(c, TRUE)
    \/ \E c \in Conns : WriteUpdated(c, c \notin closed)
    \/ \E c \in Conns : ReadError(c)
    \/ InputsUsed < MaxInputs /\ SyncCallback(MessageInAAndRenameB)
    \/ \E roomOrder \in KeyOrders({ChatA, ChatB}) : HubDequeue(roomOrder)
    \/ HubHydrate(StoreFound)
    \/ HubSuppress(250)
    \/ \E c \in Conns, ok \in BOOLEAN : HubSend(c, ok)
    \/ InputsUsed < MaxInputs /\ pingClients({}, {})

Spec == Init /\ [][Next]_vars

\* one connection and every kind of frame
NextConn ==
    \/ \E started \in BOOLEAN, accepted \in BOOLEAN : Connect(1, started, accepted)
    \/ \E ok \in BOOLEAN : WriteReady(1, ok)
    \/ \E frame \in {SetA, SetWildcard, SetUnsorted, SetMixed, SetMixedBlank, SetNone,
                     BinaryFrame, UnknownCommand} :
           InputsUsed < MaxConnInputs /\ ReadFrame(1, frame)
    \/ \E ok \in BOOLEAN : HandleFrame(1, ok)
    \/ \E ok \in BOOLEAN : WriteUpdated(1, ok)
    \/ ReadError(1)
    \/ \E payload \in {MessageInAAndRenameB, OtherPayload} :
           InputsUsed < MaxConnInputs /\ SyncCallback(payload)
    \/ \E roomOrder \in KeyOrders({ChatA, ChatB}) \cup {<<>>} : HubDequeue(roomOrder)
    \/ HubHydrate(StoreFound)
    \/ HubSuppress(250)
    \/ \E ok \in BOOLEAN : HubSend(1, ok)

SpecConn == Init /\ [][NextConn]_vars

\* one wildcard connection, repeated batches, the clock and the message store
\* varying
NextDedup ==
    \/ Connect(1, TRUE, TRUE)
    \/ \E ok \in BOOLEAN : WriteReady(1, ok)
    \/ InputsUsed < MaxDedupInputs /\ nframes[1] = 0 /\ ReadFrame(1, SetWildcard)
    \/ \E ok \in BOOLEAN : HandleFrame(1, ok)
    \/ \E ok \in BOOLEAN : WriteUpdated(1, ok)
    \/ ReadError(1)
    \/ \E payload \in {MessageInA, LeftB} :
           InputsUsed < MaxDedupInputs /\ SyncCallback(payload)
    \/ \E roomOrder \in {<<ChatA>>, <<>>} : HubDequeue(roomOrder)
    \/ \E db \in {StoreFound, StoreLater, StoreEdited, StoreMissing, StoreFailing} :
           HubHydrate(db)
    \/ \E step \in {0, 249, 250} : HubSuppress(step)
    \/ \E ok \in BOOLEAN : HubSend(1, ok)

SpecDedup == Init /\ [][NextDedup]_vars

\* "n": a second event ID; "x": the ID of a redaction
MsgN == <<110>>
RedactionX == <<120>>

\* raw events of a room: messages m and n, a reaction to m, an edit of m, a
\* sticker, a redaction of m, message m already redacted, a redaction of m
\* that was itself redacted, a name change, a reaction that relates to nothing
PlainM == RawEvent("m.room.message", MsgM, <<>>, "", <<>>)
PlainN == RawEvent("m.room.message", MsgN, <<>>, "", <<>>)
ReactionToM == RawEvent("m.reaction", MsgN, MsgM, "m.annotation", <<>>)
EditOfM == RawEvent("m.room.message", MsgN, MsgM, "m.replace", <<>>)
StickerN == RawEvent("m.sticker", MsgN, <<>>, "", <<>>)
RedactionOfM == RawEvent("m.room.redaction", MsgN, MsgM, "", <<>>)
RedactedM == RawEvent("m.room.message", MsgM, <<>>, "", RedactionX)
RedactedRedaction == RawEvent("m.room.redaction", MsgN, MsgM, "", RedactionX)
NameChange == RawEvent("m.room.name", MsgN, <<>>, "", <<>>)
LoneReaction == RawEvent("m.reaction", MsgN, <<>>, "", <<>>)

MapEvents ==
    {PlainM, PlainN, ReactionToM, EditOfM, StickerN, RedactionOfM, RedactedM,
     RedactedRedaction, NameChange, LoneReaction}

\* roomSync.Events of room a
MapEventLists == UNION {[1..n -> MapEvents] : n \in 0..MaxEvents}

\* a membership, a room-avatar and a topic event, an event of a type the
\* mapper has no case for, and a name change that was redacted
StateEvents ==
    {RawEvent("m.room.member", MsgN, <<>>, "", <<>>),
     RawEvent("m.room.avatar", MsgN, <<>>, "", <<>>),
     RawEvent("m.room.topic", MsgN, <<>>, "", <<>>),
     RawEvent("m.room.encrypted", MsgN, <<>>, "", <<>>),
     RawEvent("m.room.name", MsgN, <<>>, "", RedactionX)}

\* syncComplete.Rooms: no room, or room a with or without a timeline and with
\* its raw events, alone or next to the renamed room b; or room a with its
\* metadata, state or account data changed or not, and with no event, a
\* redaction or one of the state events
MapRooms ==
    {<<>>}
    \cup {(ChatA :> SyncRoom(FALSE, FALSE, FALSE, hasTimeline, events)) @@ others :
              hasTimeline \in BOOLEAN, events \in MapEventLists,
              others \in {<<>>, RenameB.rooms}}
    \cup {ChatA :> SyncRoom(meta, hasState, hasAccountData, FALSE, events) :
              meta \in BOOLEAN, hasState \in BOOLEAN, hasAccountData \in BOOLEAN,
              events \in {<<>>, <<RedactionOfM>>} \cup {<<evt>> : evt \in StateEvents}}

\* syncComplete.LeftRooms: distinct rooms, one of them possibly with a blank ID
MapLeftRooms == {<<>>, <<ChatB>>, <<ChatB, ChatA>>, <<<<32>>, ChatB>>, <<<<>>>>}

MapBatches ==
    {SyncComplete(leftRooms, rooms) : leftRooms \in MapLeftRooms, rooms \in MapRooms}

\* the orders in which the rooms of such a batch can be visited
MapRoomOrders == UNION {KeyOrders(S) : S \in SUBSET {ChatA, ChatB}}

\* the message store with m and n both in room a, with n missing, with n in
\* room b, or with m an event that mapEventToMessage skips
StoreBoth ==
    MsgStore(TRUE, TRUE, FALSE, (MsgM :> StoredMsg(ChatA, 1, 10, FALSE))
                                @@ (MsgN :> StoredMsg(ChatA, 2, 20, FALSE)))
StoreForeign ==
    MsgStore(TRUE, TRUE, FALSE, (MsgM :> StoredMsg(ChatA, 1, 10, FALSE))
                                @@ (MsgN :> StoredMsg(ChatB, 2, 20, FALSE)))
StoreSkipped ==
    MsgStore(TRUE, TRUE, FALSE, (MsgM :> StoredMsg(ChatA, 1, 10, TRUE))
                                @@ (MsgN :> StoredMsg(ChatA, 2, 20, FALSE)))

MapStores == {StoreBoth, StoreFound, StoreForeign, StoreSkipped, StoreMissing,
              StoreFailing}

\* one connection subscribed to everything and one batch of any of the shapes
\* above, mapped, hydrated from any of the stores and written
NextMap ==
    \/ Connect(1, TRUE, TRUE)
    \/ WriteReady(1, TRUE)
    \/ nframes[1] = 0 /\ ReadFrame(1, SetWildcard)
    \/ HandleFrame(1, TRUE)
    \/ WriteUpdated(1, TRUE)
    \/ /\ delivered = 0
       /\ nframes[1] = 1
       /\ pc[1] = "loop"
       /\ \E payload \in MapBatches : SyncCallback(payload)
    \/ \E roomOrder \in MapRoomOrders : HubDequeue(roomOrder)
    \/ \E db \in MapStores : HubHydrate(db)
    \/ HubSuppress(250)
    \/ \E ok \in BOOLEAN : HubSend(1, ok)

SpecMap == Init /\ [][NextMap]_vars

\* two connections, the first sending frames of every rejected kind, with
\* the subscribe call, the upgrade, every write and every ping failing or not
NextProto ==
    \/ \E c \in Conns, started \in BOOLEAN, accepted \in BOOLEAN :
           Connect(c, started, accepted)
    \/ \E c \in Conns, ok \in BOOLEAN : WriteReady(c, ok)
    \/ \E frame \in RejectedFrames \cup {SetA} :
           InputsUsed < MaxProtoInputs /\ ReadFrame(1, frame)
    \/ InputsUsed < MaxProtoInputs /\ ReadFrame(2, SetWildcard)
    \/ \E c \in Conns, ok \in BOOLEAN : HandleFrame(c, ok)
    \/ \E c \in Conns, ok \in BOOLEAN : WriteUpdated(c, ok)
    \/ \E c \in Conns : ReadError(c)
    \/ InputsUsed < MaxProtoInputs /\ SyncCallback(MessageInA)
    \/ HubDequeue(<<ChatA>>)
    \/ HubHydrate(StoreFound)
    \/ HubSuppress(250)
    \/ \E c \in Conns, ok \in BOOLEAN : HubSend(c, ok)
    \/ \E failed \in SUBSET Conns, torn \in SUBSET Conns :
           InputsUsed < MaxProtoInputs /\ pingClients(failed, torn)

SpecProto == Init /\ [][NextProto]_vars

\* two connections with the writes and the pings split into their beginning
\* and their end, so that other goroutines run while one is under way
NextLock ==
    \/ \E c \in Conns : Connect(c, TRUE, TRUE)
    \/ \E c \in Conns, who \in {"handler", "hub"} : LockWrite(c, who)
    \/ \E c \in Conns, ok \in BOOLEAN : WriteReady(c, ok)
    \/ \E frame \in {SetWildcard, BinaryFrame} :
           InputsUsed < MaxLockInputs /\ ReadFrame(1, frame)
    \/ \E c \in Conns, ok \in BOOLEAN : HandleFrame(c, ok)
    \/ \E c \in Conns, ok \in BOOLEAN : WriteUpdated(c, ok)
    \/ \E c \in Conns : ReadError(c)
    \/ InputsUsed < MaxLockInputs /\ SyncCallback(LeftB)
    \/ HubDequeue(<<>>)
    \/ HubHydrate(StoreFound)
    \/ HubSuppress(250)
    \/ \E c \in Conns, ok \in BOOLEAN : HubSend(c, ok)
    \/ InputsUsed < MaxLockInputs /\ PingSnapshot
    \/ \E c \in Conns : BeginPing(c)
    \/ \E c \in Conns, failed \in BOOLEAN, torn \in BOOLEAN : EndPing(c, failed, torn)

SpecLock == Init /\ [][NextLock]_vars

\* one connection that subscribes to everything, batches and keepalive ticks,
\* with the writes and the pings split as in SpecLock
NextLive ==
    \/ Connect(1, TRUE, TRUE)
    \/ \E who \in {"handler", "hub"} : LockWrite(1, who)
    \/ \E ok \in BOOLEAN : WriteReady(1, ok)
    \/ nframes[1] = 0 /\ ReadFrame(1, SetWildcard)
    \/ \E ok \in BOOLEAN : HandleFrame(1, ok)
    \/ \E ok \in BOOLEAN : WriteUpdated(1, ok)
    \/ ReadError(1)
    \/ delivered + pingTicks < MaxLiveInputs /\ SyncCallback(LeftB)
    \/ HubDequeue(<<>>)
    \/ HubHydrate(StoreFound)
    \/ HubSuppress(250)
    \/ \E ok \in BOOLEAN : HubSend(1, ok)
    \/ delivered + pingTicks < MaxLiveInputs /\ PingSnapshot
    \/ BeginPing(1)
    \/ \E failed \in BOOLEAN, torn \in BOOLEAN : EndPing(1, failed, torn)

\* the goroutines keep running and every call they wait for returns: the
\* dispatch loop takes its next step (wsjson.Write returns within
\* wsDefaultWriteTimeout, conn.Ping within wsPingTimeout), and a handler that
\* has a message to write completes the write and gives back the write lock
RunFairness ==
    /\ WF_vars(\/ HubDequeue(<<>>)
               \/ HubHydrate(StoreFound)
               \/ HubSuppress(250)
               \/ \E ok \in BOOLEAN : HubSend(1, ok)
               \/ BeginPing(1)
               \/ \E failed \in BOOLEAN, torn \in BOOLEAN : EndPing(1, failed, torn))
    /\ WF_vars(\E ok \in BOOLEAN : \/ WriteReady(1, ok)
                                   \/ HandleFrame(1, ok)
                                   \/ WriteUpdated(1, ok))

SpecLive == Init /\ [][NextLive]_vars /\ RunFairness

\* one wildcard connection and a run of batches that all map to the same
\* chat.deleted event, each event reaching the suppressor 100, 249 or 250 ms
\* after the one before
NextRun ==
    \/ Connect(1, TRUE, TRUE)
    \/ \E ok \in BOOLEAN : WriteReady(1, ok)
    \/ nframes[1] = 0 /\ ReadFrame(1, SetWildcard)
    \/ \E ok \in BOOLEAN : HandleFrame(1, ok)
    \/ \E ok \in BOOLEAN : WriteUpdated(1, ok)
    \/ ReadError(1)
    \/ delivered < MaxRun /\ SyncCallback(LeftB)
    \/ HubDequeue(<<>>)
    \/ HubHydrate(StoreFound)
    \/ \E step \in {100, 249, 250} : HubSuppress(step)
    \/ \E ok \in BOOLEAN : HubSend(1, ok)

SpecRun == Init /\ [][NextRun]_vars

\* one wildcard connection and batches that map to three different events
\* (chat.upserted and message.upserted of room a, chat.deleted of room b),
\* each event reaching the suppressor just under or at the prune interval, or
\* at or just over the retention, after the one before
NextPrune ==
    \/ Connect(1, TRUE, TRUE)
    \/ \E ok \in BOOLEAN : WriteReady(1, ok)
    \/ nframes[1] = 0 /\ ReadFrame(1, SetWildcard)
    \/ \E ok \in BOOLEAN : HandleFrame(1, ok)
    \/ \E ok \in BOOLEAN : WriteUpdated(1, ok)
    \/ ReadError(1)
    \/ delivered < MaxRun /\ \E payload \in {MessageInA, LeftB} : SyncCallback(payload)
    \/ \E roomOrder \in {<<ChatA>>, <<>>} : HubDequeue(roomOrder)
    \/ HubHydrate(StoreFound)
    \/ \E step \in {4999, 5000, 30000, 30001} : HubSuppress(step)
    \/ \E ok \in BOOLEAN : HubSend(1, ok)

SpecPrune == Init /\ [][NextPrune]_vars

\* two connections that subscribe to everything, at any moment, and a run of
\* batches that all map to the same chat.deleted event, each event reaching
\* the suppressor 249 or 250 ms after the one before; no transport fails
NextShared ==
    \/ \E c \in Conns : Connect(c, TRUE, TRUE)
    \/ \E c \in Conns : WriteReady(c, TRUE)
    \/ \E c \in Conns : nframes[c] = 0 /\ ReadFrame(c, SetWildcard)
    \/ \E c \in Conns : HandleFrame(c, TRUE)
    \/ \E c \in Conns : WriteUpdated(c, TRUE)
    \/ delivered < MaxRun /\ SyncCallback(LeftB)
    \/ HubDequeue(<<>>)
    \/ HubHydrate(StoreFound)
    \/ \E step \in {249, 250} : HubSuppress(step)
    \/ \E c \in Conns : HubSend(c, TRUE)

SpecShared == Init /\ [][NextShared]_vars

\* the dispatch loop and the handlers of two connections, each going through
\* its lock-taking calls in any order and at any speed
NextMutex ==
    \/ \E g \in {0} \cup Conns : \E ops \in LockCalls(g) : Call(g, ops)
    \/ \E g \in {0} \cup Conns : Acquire(g)
    \/ \E g \in {0} \cup Conns : Release(g)

SpecMutex == Init /\ [][NextMutex]_vars

\* ------------------------------------------------ normalization on its own

\* the strings of the lists: " ", "a", " a", "b", "*", "* "
RawStrings == {<<32>>, <<97>>, <<32, 97>>, <<98>>, <<42>>, <<42, 32>>}

RawLists == UNION {[1..n -> RawStrings] : n \in 0..MaxListLen}

Elements(list) == {list[i] : i \in 1..Len(list)}

\* the chatIDs value of a frame holding the strings of list
ChatIDsValue(list) == JArr([i \in 1..Len(list) |-> JStr(list[i])])

\* what wsEvents does with the chatIDs value: decodeWSChatIDs, then
\* normalizeWSChatIDs
NormalizeChatIDs(raw) ==
    LET decoded == decodeWSChatIDs(raw)
    IN  IF ~decoded.ok THEN decoded ELSE normalizeWSChatIDs(decoded.list)

\* a list, and a second list made of the same strings in any order and number
NormInit ==
    /\ HubInit
    /\ normPc = "start"
    /\ normIn \in RawLists
    /\ normAlt \in {list \in RawLists : Elements(list) = Elements(normIn)}
    /\ normOut = [ok |-> TRUE, list |-> <<>>]
    /\ normAltOut = [ok |-> TRUE, list |-> <<>>]
    /\ normAgain = [ok |-> TRUE, list |-> <<>>]

\* both lists are normalized
NormalizeBoth ==
    /\ normPc = "start"
    /\ normPc' = "once"
    /\ normOut' = NormalizeChatIDs(ChatIDsValue(normIn))
    /\ normAltOut' = NormalizeChatIDs(ChatIDsValue(normAlt))
    /\ UNCHANGED <<normIn, normAlt, normAgain>>
    /\ UNCHANGED <<subVars, hubVars, dedupVars, regVars, connVars, envVars,
                   pingVars, lockVars>>

\* an accepted result is normalized again
NormalizeAgain ==
    /\ normPc = "once"
    /\ normOut.ok
    /\ normPc' = "twice"
    /\ normAgain' = NormalizeChatIDs(ChatIDsValue(normOut.list))
    /\ UNCHANGED <<normIn, normAlt, normOut, normAltOut>>
    /\ UNCHANGED <<subVars, hubVars, dedupVars, regVars, connVars, envVars,
                   pingVars, lockVars>>

NextNorm == NormalizeBoth \/ NormalizeAgain

SpecNorm == NormInit /\ [][NextNorm]_vars

\* --------------------------------------------------------------------- claims

\* a message was handed to the transport of c in this step
Wrote(c) == nsent'[c] = nsent[c] + 1

\* ... and it was a domain event
WroteEvent(c) == Wrote(c) /\ wire'[c].type \in DomainTypes

\* the subscription sub is the wildcard or contains chatID
Matches(sub, chatID) ==
    \E i \in 1..Len(sub) : sub[i] = <<42>> \/ sub[i] = chatID

\* two lists of hydrated entries agree in everything but their timestamps
SameContent(entries, other) ==
    /\ Len(entries) = Len(other)
    /\ \A i \in 1..Len(entries) :
           /\ entries[i].id = other[i].id
           /\ entries[i].text = other[i].text

\* an event with the type, chatID, ids and, timestamps aside, entries of the
\* event at hand was recorded less than wsDuplicateEventDebounce before now
SeenWithinDebounce(now) ==
    \E g \in DOMAIN recentFingerprints :
        /\ g.type = curEvent.domainEvent.type
        /\ g.chatID = curEvent.domainEvent.chatID
        /\ g.ids = curEvent.domainEvent.ids
        /\ SameContent(g.entries, curEvent.entries)
        /\ now - recentFingerprints[g] < wsDuplicateEventDebounce

\* the step in which the event at hand is given to the duplicate suppressor
ReachesSuppressor ==
    /\ hubPc = "hydrated"
    /\ hubPc' # "hydrated"
    /\ ~HydrationDrops(curEvent.domainEvent, curEvent)

\* the strings of a chatIDs value, trimmed, without the blank ones
TrimmedIDs(raw) ==
    {TrimSpace(raw.v[i].v) : i \in 1..Len(raw.v)} \ {<<>>}

\* list is the normal form of the chatIDs value raw: ["*"] for the wildcard
\* alone, otherwise the trimmed non-blank strings, each once, ascending
IsNormalFormOf(list, raw) ==
    /\ Elements(list) = TrimmedIDs(raw)
    /\ \A i, j \in 1..Len(list) : i < j => StrLess(list[i], list[j])
    /\ wsWildcardSubscriptionChatID \in Elements(list)
           => list = <<wsWildcardSubscriptionChatID>>

\* the requestID a reply echoes
EchoedRequestID(frame) ==
    IF frame.requestID.k = "str" THEN frame.requestID.v ELSE <<>>

\* the frame is a subscriptions.set whose chatIDs hold the wildcard and
\* another ID
MixesWildcard(frame) ==
    /\ frame.messageType = "text"
    /\ frame.json = "object"
    /\ frame.hasType /\ frame.typeOK
    /\ frame.msgType = wsSubscriptionsCommandType
    /\ frame.chatIDs.k = "arr"
    /\ \A i \in 1..Len(frame.chatIDs.v) : frame.chatIDs.v[i].k = "str"
    /\ wsWildcardSubscriptionChatID \in TrimmedIDs(frame.chatIDs)
    /\ TrimmedIDs(frame.chatIDs) # {wsWildcardSubscriptionChatID}

\* C1: on every connection the seq values of the domain-event messages handed
\* to the transport are strictly increasing in the order of the writes, so
\* none is repeated, whatever the interleaving of batches, subscription
\* commands and keepalive ticks
C1_SeqStrictlyIncreasing ==
    \A c \in Conns :
        /\ \A i, j \in 1..Len(seqLog[c]) : i < j => seqLog[c][i] < seqLog[c][j]
        /\ (wire[c].type \in DomainTypes /\ seqLog[c] # <<>>)
               => wire[c].seq = seqLog[c][Len(seqLog[c])]

\* a connection has been sent two domain events or more after its
\* subscription command, and a keepalive tick has happened
C1_Witness ==
    \E c \in Conns : Len(seqLog[c]) >= 2 /\ nframes[c] >= 1 /\ pingTicks >= 1

\* C2: when an event reaches the duplicate suppressor less than 250 ms after
\* an event with the same type, chatID, ids and entries (the keys ts and
\* timestamp of the entries left out of the comparison), it is written to no
\* connection: the target loop is not entered and nothing is sent
C2_NearDuplicatesSuppressed ==
    [][ (ReachesSuppressor /\ SeenWithinDebounce(clock'))
            => /\ hubPc' # "send"
               /\ UNCHANGED <<wire, nsent, seqLog, state>>
      ]_vars

\* C2, as the code has it: the comparison leaves nothing out; an event is
\* suppressed exactly when an event with the same type, chatID, ids and entries,
\* timestamps included, was recorded less than 250 ms before, and either way
\* its fingerprint is recorded with the time of this event
C2_IdenticalEntriesSuppressed ==
    [][ ReachesSuppressor
            => LET fingerprint == [type |-> curEvent.domainEvent.type,
                                   chatID |-> curEvent.domainEvent.chatID,
                                   ids |-> curEvent.domainEvent.ids,
                                   entries |-> curEvent.entries]
                   seen == /\ fingerprint \in DOMAIN recentFingerprints
                           /\ clock' - recentFingerprints[fingerprint]
                                  < wsDuplicateEventDebounce
               IN  /\ seen <=> hubPc' # "send"
                   /\ fingerprint \in DOMAIN recentFingerprints'
                   /\ recentFingerprints'[fingerprint] = clock'
                   /\ UNCHANGED <<wire, nsent, seqLog, state>>
      ]_vars

\* the connection has been written a message.upserted less than 250 ms after
\* the suppressor recorded an event of the same type, chat and ids whose
\* entries differ from the written ones in their timestamps only
C2_Witness ==
    /\ wire[1].type = wsDomainTypeMessageUpserted
    /\ wire[1].ok
    /\ \E g \in DOMAIN recentFingerprints :
           /\ g.type = wire[1].type
           /\ g.chatID = wire[1].chatID
           /\ g.ids = wire[1].ids
           /\ SameContent(g.entries, wire[1].entries)
           /\ g.entries # wire[1].entries
           /\ recentFingerprints[g] <= wire[1].ts
           /\ wire[1].ts - recentFingerprints[g] < wsDuplicateEventDebounce

\* C3: a payload delivered while the queue holds wsEventQueueSize payloads is
\* discarded and the queue keeps its content and order; the callback is never
\* blocked (it can always take its step); a discarded payload is never the one
\* being processed nor in the queue
C3_FullQueueDropsNewest ==
    [][ /\ (delivered' # delivered)
            => /\ delivered' = delivered + 1
               /\ UNCHANGED <<hubPc, curSerial, domainEvents, curEvent, targets, regVars>>
               /\ IF Len(eventQueue) >= wsEventQueueSize
                  THEN /\ eventQueue' = eventQueue
                       /\ dropped' = dropped \cup {delivered'}
                  ELSE /\ Len(eventQueue') = Len(eventQueue) + 1
                       /\ SubSeq(eventQueue', 1, Len(eventQueue)) = eventQueue
                       /\ eventQueue'[Len(eventQueue')].serial = delivered'
                       /\ dropped' = dropped
        /\ subscribeState = "ok" => ENABLED SyncCallback(OtherPayload)
        /\ Len(eventQueue') <= wsEventQueueSize
        /\ curSerial' \notin dropped'
        /\ \A i \in 1..Len(eventQueue') : eventQueue'[i].serial \notin dropped'
      ]_vars

\* a payload was discarded at a full queue, which has since been drained
\* without the discarded payload having been processed
C3_Witness ==
    /\ dropped = {wsEventQueueSize + 1}
    /\ eventQueue = <<>>
    /\ curSerial = wsEventQueueSize
    /\ hubPc = "wait"

\* C4: the targets computed for a domain event of chat X are registered
\* connections whose subscription is the wildcard or contains X at that
\* moment, and a domain event is written only to a target of the event at hand
C4_OnlyMatchingTargets ==
    [][ /\ (hubPc = "event" /\ hubPc' = "hydrated")
            => /\ curEvent'.domainEvent = Head(domainEvents)
               /\ \A c \in targets' :
                      /\ c \in clients
                      /\ Matches(state[c].chatIDs, Head(domainEvents).chatID)
        /\ (hubPc \in {"hydrated", "send"} /\ hubPc' = "send")
            => /\ targets' \subseteq targets
               /\ curEvent'.domainEvent = curEvent.domainEvent
        /\ \A c \in Conns :
               WroteEvent(c)
                   => /\ hubPc = "send"
                      /\ c \in targets
                      /\ wire'[c].type = curEvent.domainEvent.type
                      /\ wire'[c].chatID = curEvent.domainEvent.chatID
                      /\ wire'[c].ids = curEvent.domainEvent.ids
      ]_vars

\* an event of chat b has gone to the wildcard connection while the other
\* connection, registered and subscribed to a alone, has received no event
C4_Witness ==
    \E c, d \in Conns :
        /\ wire[c].type \in DomainTypes /\ wire[c].chatID = ChatB /\ wire[c].ok
        /\ state[c].chatIDs = <<wsWildcardSubscriptionChatID>>
        /\ d \in clients /\ state[d].chatIDs = <<ChatA>> /\ pc[d] = "loop"
        /\ seqLog[d] = <<>>
        /\ hubPc = "wait" /\ eventQueue = <<>>

\* C5: a message.upserted event whose hydration failed or returned no entries
\* is dropped by the dispatch loop without entering the target loop: nothing
\* is written to any connection, no seq changes and the duplicate suppressor
\* is not consulted
C5_EmptyHydrationDropped ==
    [][ ( /\ hubPc = "hydrated"
          /\ hubPc' # "hydrated"
          /\ curEvent.domainEvent.type = wsDomainTypeMessageUpserted
          /\ (curEvent.err \/ curEvent.entries = <<>>) )
            => /\ hubPc' # "send"
               /\ targets' = {}
               /\ UNCHANGED <<wire, nsent, seqLog, state, clients, closed>>
               /\ UNCHANGED dedupVars
      ]_vars

\* the only batch so far held a message whose hydration gave nothing: the
\* chat.upserted of the room was written to the connection, which is still
\* registered, and the batch is done without a message.upserted
C5_Witness ==
    /\ delivered = 1 /\ curSerial = 1 /\ hubPc = "wait"
    /\ 1 \in clients /\ pc[1] = "loop"
    /\ wire[1].type = wsDomainTypeChatUpserted /\ wire[1].ok
    /\ seqLog[1] = <<1>>
    /\ recentFingerprints # <<>>
    /\ \A g \in DOMAIN recentFingerprints : g.type # wsDomainTypeMessageUpserted

\* C6: when a valid subscriptions.set is applied, the registry entry of the
\* connection holds exactly the normal form of its list (nothing of the
\* earlier subscription is kept) before the reply is written, and the reply is
\* a subscriptions.updated with the requestID and that normal form; a
\* connection that a failed write has already removed from the registry has no
\* entry to replace, is closed, and its reply fails
C6_SetReplacesThenReplies ==
    [][ \A c \in Conns :
            /\ (pc[c] = "frame" /\ pc'[c] = "reply")
                   => /\ IsNormalFormOf(req'[c].normalized, req[c].frame.chatIDs)
                      /\ c \in clients => state'[c].chatIDs = req'[c].normalized
                      /\ c \notin clients => (c \in closed /\ state' = state)
                      /\ ~Wrote(c)
            /\ (pc[c] = "reply" /\ pc'[c] # "reply")
                   => /\ Wrote(c)
                      /\ wire'[c].type = wsSubscriptionsUpdatedType
                      /\ wire'[c].requestID = EchoedRequestID(req[c].frame)
                      /\ wire'[c].chatIDs = req[c].normalized
                      /\ IsNormalFormOf(wire'[c].chatIDs, req[c].frame.chatIDs)
                      /\ c \in clients => state[c].chatIDs = wire'[c].chatIDs
                      /\ c \notin clients => ~wire'[c].ok
            /\ (Wrote(c) /\ wire'[c].type = wsSubscriptionsUpdatedType)
                   => pc[c] = "reply"
      ]_vars

\* the connection, which received the events of both rooms under its earlier
\* subscription, has been sent the reply to a set of ["a"] and is subscribed
\* to a alone
C6_Witness ==
    /\ wire[1].type = wsSubscriptionsUpdatedType
    /\ wire[1].requestID = ReqR
    /\ wire[1].chatIDs = <<ChatA>>
    /\ wire[1].ok
    /\ seqLog[1] = <<1, 2, 3>>
    /\ 1 \in clients
    /\ state[1].chatIDs = <<ChatA>>

\* C7: a subscriptions.set whose list holds the wildcard and another ID is
\* answered with an error of code INVALID_PAYLOAD, and the subscription (the
\* whole state of the connection) stays as it was
C7_MixedWildcardRejected ==
    [][ \A c \in Conns :
            (pc[c] = "frame" /\ pc'[c] # "frame" /\ MixesWildcard(req[c].frame))
                => /\ pc'[c] = "loop"
                   /\ Wrote(c)
                   /\ wire'[c].type = wsErrorType
                   /\ wire'[c].code = wsErrorCodeInvalidPayload
                   /\ wire'[c].requestID = EchoedRequestID(req[c].frame)
                   /\ state' = state
      ]_vars

\* a connection subscribed to a has had a set of ["*", "a"] rejected and is
\* still subscribed to a
C7_Witness ==
    /\ pc[1] = "loop"
    /\ MixesWildcard(req[1].frame)
    /\ wire[1].type = wsErrorType
    /\ wire[1].code = wsErrorCodeInvalidPayload
    /\ wire[1].ok
    /\ 1 \in clients
    /\ state[1].chatIDs = <<ChatA>>

\* C8: normalization is idempotent (an accepted result normalizes to itself)
\* and independent of order and repetition (two lists made of the same strings
\* get the same verdict and the same result)
C8_NormalizationIdempotentOrderIndependent ==
    /\ (normPc \in {"once", "twice"} /\ Elements(normIn) = Elements(normAlt))
           => normOut = normAltOut
    /\ normPc = "twice" => (normAgain.ok /\ normAgain.list = normOut.list)

\* an unsorted list with a repetition and its reordering have been normalized
\* to the same list of two IDs, which was normalized again
C8_Witness ==
    /\ normPc = "twice"
    /\ normIn # normAlt
    /\ Len(normIn) > Len(normOut.list)
    /\ Len(normOut.list) = 2
    /\ normIn[1] = <<98>>

\* C9: a domain-event write to a connection increments that connection's
\* counter by exactly one and carries the new value, no other step and no
\* other connection's event changes it, and a newly created connection state
\* starts at zero, so that its first event carries seq 1
C9_SeqPerConnection ==
    [][ \A c \in Conns :
            /\ (c \in DOMAIN state /\ WroteEvent(c))
                   => /\ state'[c].seq = state[c].seq + 1
                      /\ wire'[c].seq = state'[c].seq
            /\ (c \in DOMAIN state /\ ~WroteEvent(c))
                   => state'[c].seq = state[c].seq
            /\ (c \notin DOMAIN state /\ c \in DOMAIN state')
                   => state'[c].seq = 0
            /\ seqLog'[c] # <<>> => seqLog'[c][1] = 1
      ]_vars

\* the same chat.upserted event has been written to both connections under
\* different seq values
C9_Witness ==
    /\ wire[1].type = wsDomainTypeChatUpserted
    /\ wire[2].type = wsDomainTypeChatUpserted
    /\ wire[1].chatID = wire[2].chatID
    /\ wire[1].ts = wire[2].ts
    /\ wire[1].seq # wire[2].seq
    /\ wire[1].ok /\ wire[2].ok

\* C10: the first message handed to an accepted connection is ready and no
\* later one is; the connection is registered with an empty subscription,
\* which only a valid subscriptions.set of its handler changes, and it becomes
\* a target, and is written a domain event, only with a non-empty subscription
C10_ReadyFirstNoEventBeforeSet ==
    [][ \A c \in Conns :
            /\ Wrote(c) => (wire'[c].type = wsReadyType <=> nsent[c] = 0)
            /\ (Wrote(c) /\ nsent[c] = 0) => (pc[c] = "ready" /\ pc'[c] = "loop")
            /\ pc'[c] \in {"loop", "frame", "reply"} => nsent'[c] >= 1
            /\ (c \notin DOMAIN state /\ c \in DOMAIN state')
                   => (state'[c].chatIDs = <<>> /\ c \in clients' /\ nsent'[c] = 0)
            /\ (c \in DOMAIN state /\ state'[c].chatIDs # state[c].chatIDs)
                   => (pc[c] = "frame" /\ pc'[c] = "reply")
            /\ (c \in targets' /\ c \notin targets) => state[c].chatIDs # <<>>
            /\ WroteEvent(c) => (c \in targets /\ nsent[c] >= 1 /\ nframes[c] >= 1)
      ]_vars

\* a batch was dispatched while the connection, ready sent and a frame
\* rejected, had no subscription: nothing but ready and the error was written
C10_Witness ==
    /\ pc[1] = "loop" /\ 1 \in clients
    /\ curSerial = 1 /\ hubPc = "wait" /\ eventQueue = <<>>
    /\ nsent[1] = 2
    /\ wire[1].type = wsErrorType /\ wire[1].ok
    /\ state[1].chatIDs = <<>>
    /\ seqLog[1] = <<>>

\* the frame breaks the protocol: it is not text, not JSON, not an object, has
\* no string type, names another command, has an unknown key, a requestID
\* that is not a string, or chatIDs that are not an array of strings or mix
\* the wildcard with another ID
BreaksProtocol(frame) ==
    \/ frame.messageType # "text"
    \/ frame.json # "object"
    \/ ~frame.hasType
    \/ ~frame.typeOK
    \/ frame.msgType # wsSubscriptionsCommandType
    \/ frame.extraKey
    \/ frame.requestID.k \notin {"absent", "str"}
    \/ frame.chatIDs.k # "arr"
    \/ \E i \in 1..Len(frame.chatIDs.v) : frame.chatIDs.v[i].k # "str"
    \/ MixesWildcard(frame)

\* C11: a frame that breaks the protocol is answered with an error message
\* written to its own connection and to no other; the subscriptions and seq
\* counters of all connections stay as they were, nothing is handed to any
\* other connection, and once the answer is written the connection is still
\* registered and open and back in its read loop, where a later valid
\* command is processed
C11_ViolationAnsweredWithErrorOnly ==
    [][ \A c \in Conns :
            (pc[c] = "frame" /\ pc'[c] # "frame" /\ BreaksProtocol(req[c].frame))
                => /\ Wrote(c)
                   /\ wire'[c].type = wsErrorType
                   /\ pc'[c] = "loop"
                   /\ state' = state
                   /\ seqLog' = seqLog
                   /\ \A d \in Conns \ {c} : nsent'[d] = nsent[d] /\ wire'[d] = wire[d]
                   /\ clients' \ {c} = clients \ {c}
                   /\ wire'[c].ok => (c \in clients' /\ c \notin closed')
      ]_vars

\* the frame last read on connection 1 was rejected and answered, and the
\* subscriptions.set read after it has been stored; connection 2, registered
\* all along, has been handed nothing but its ready message
C11_Witness ==
    /\ pc[1] = "reply"
    /\ nframes[1] = 2
    /\ wire[1].type = wsErrorType
    /\ wire[1].ok
    /\ 1 \in clients
    /\ state[1].chatIDs = <<ChatA>>
    /\ 2 \in clients
    /\ nsent[2] = 1

\* the write handed to the transport of c in this step failed
WriteFailed(c) == Wrote(c) /\ ~wire'[c].ok

\* the keepalive ping of c made in this step failed
PingFailed(c) == pingTicks' = pingTicks + 1 /\ c \in pingErr'

\* C12: a transport write that fails or times out, be it the push of a domain
\* event, the reply or error answering a command, or a keepalive ping, leaves
\* the connection closed and out of the registry in the same step
C12_FailedWriteClosesAndUnregisters ==
    [][ \A c \in Conns :
            (WriteFailed(c) \/ PingFailed(c))
                => (c \in closed' /\ c \notin clients')
      ]_vars

\* C12, as the code has it: a failed write of a message closes and
\* unregisters the connection in the same step and the message is not written
\* again (the target loop and the handler move on); a keepalive tick changes
\* nothing in the registry whether its pings fail or not
C12_FailedMessageWriteClosesAndUnregisters ==
    [][ /\ \A c \in Conns :
               WriteFailed(c)
                   => /\ c \in closed'
                      /\ c \notin clients'
                      /\ wire'[c].type \in DomainTypes => c \notin targets'
                      /\ wire'[c].type \notin DomainTypes => pc'[c] = "loop"
        /\ pingTicks' # pingTicks => UNCHANGED <<clients, state, wire, nsent>>
      ]_vars

\* the ping of connection 1 failed in the last tick; the connection is still
\* registered and its transport open
C12_Witness ==
    /\ pingTicks >= 1
    /\ 1 \in pingErr
    /\ 1 \in clients
    /\ 1 \notin closed

\* C13: a read error takes the connection out of the registry, closes it and
\* ends its handler, and once the handler has ended nothing is handed to the
\* transport of that connection any more, not even by a dispatch that was in
\* progress
C13_NoWriteAfterReadError ==
    [][ \A c \in Conns :
            /\ (pc[c] = "loop" /\ pc'[c] = "done")
                   => (c \notin clients' /\ c \in closed')
            /\ pc[c] = "done" => ~Wrote(c)
      ]_vars

\* C13, as the code has it: the handler that ended writes nothing more and no
\* later event takes the connection as a target; a dispatch that had taken it
\* as a target before still hands it the event, and that write fails
C13_OnlyStaleTargetWrittenAfterReadError ==
    [][ \A c \in Conns :
            /\ (pc[c] = "loop" /\ pc'[c] = "done")
                   => (c \notin clients' /\ c \in closed')
            /\ pc[c] = "done"
                   => /\ pc'[c] = "done"
                      /\ c \notin clients'
                      /\ c \in targets' => c \in targets
                      /\ Wrote(c) => /\ hubPc = "send"
                                     /\ c \in targets
                                     /\ wire'[c].type \in DomainTypes
                                     /\ ~wire'[c].ok
      ]_vars

\* the handler of connection 1 has ended on a read error while the target
\* loop of a dispatch still holds the connection as a target
C13_Witness ==
    /\ pc[1] = "done"
    /\ 1 \in closed
    /\ 1 \notin clients
    /\ hubPc = "send"
    /\ 1 \in targets

\* C14: once the one call of SubscribeEvents has failed, the failure stays:
\* every connection attempt ends with that error before the upgrade, the call
\* is not made again, the dispatch loop is not started and takes nothing from
\* the protocol client, and no connection is registered or written to
C14_SubscribeFailureCached ==
    /\ [](subscribeState = "err"
              => /\ subscribeCalls = 1
                 /\ hubPc = "off"
                 /\ eventQueue = <<>> /\ delivered = 0
                 /\ clients = {} /\ DOMAIN state = {}
                 /\ \A c \in Conns : pc[c] \in {"new", "done"} /\ nsent[c] = 0)
    /\ [][subscribeState = "err"
              => /\ subscribeState' = "err"
                 /\ \A c \in Conns : pc'[c] # pc[c] => (pc[c] = "new" /\ pc'[c] = "done")
         ]_vars

\* both connection attempts have ended on the failure of the one subscribe
\* call
C14_Witness ==
    /\ subscribeState = "err"
    /\ subscribeCalls = 1
    /\ pc[1] = "done"
    /\ pc[2] = "done"
    /\ clients = {}

\* the dispatch loop takes a batch off the queue in this step
DequeuesBatch ==
    /\ Len(eventQueue') < Len(eventQueue)
    /\ Head(eventQueue).kind = "SyncComplete"

\* the events of a list that have the given type
OfType(events, type) == SelectSeq(events, LAMBDA e : e.type = type)

\* the events of a list that have the given type and chat
OfTypeAndChat(events, type, chatID) ==
    SelectSeq(events, LAMBDA e : e.type = type /\ e.chatID = chatID)

\* the non-blank IDs of the left rooms of a batch
NonBlankLeftRooms(batch) ==
    {batch.leftRooms[i] : i \in 1..Len(batch.leftRooms)} \ {<<>>, <<32>>}

\* C15: the chat.deleted events mapped from a batch are one for each left
\* room with a non-blank ID, with that room as chatID and ids = [chatID], and
\* no others; a batch with one such left room and no touched room is mapped to
\* that one event and nothing else
C15_LeftRoomsYieldChatDeleted ==
    [][ DequeuesBatch
            => LET batch == Head(eventQueue)
                   left == NonBlankLeftRooms(batch)
                   deletions == OfType(domainEvents', wsDomainTypeChatDeleted)
               IN  /\ \A r \in left :
                          OfTypeAndChat(domainEvents', wsDomainTypeChatDeleted, r)
                              = <<DomainEvent(wsDomainTypeChatDeleted, r, <<r>>)>>
                   /\ \A i \in 1..Len(deletions) : deletions[i].chatID \in left
                   /\ (Len(batch.leftRooms) = 1 /\ left # {} /\ DOMAIN batch.rooms = {})
                          => domainEvents'
                                 = <<DomainEvent(wsDomainTypeChatDeleted,
                                                 batch.leftRooms[1],
                                                 <<batch.leftRooms[1]>>)>>
      ]_vars

\* a batch with the left rooms b and a and no touched room has been mapped to
\* the two chat.deleted events
C15_Witness ==
    /\ hubPc = "event"
    /\ curSerial = 1
    /\ domainEvents = <<DomainEvent(wsDomainTypeChatDeleted, ChatB, <<ChatB>>),
                        DomainEvent(wsDomainTypeChatDeleted, ChatA, <<ChatA>>)>>

\* the raw events of room r of a batch
RawEventsOf(batch, r) ==
    {batch.rooms[r].events[i] : i \in 1..Len(batch.rooms[r].events)}

\* a message, sticker or reaction event that is not itself redacted
IsUpsertSource(evt) ==
    /\ evt.type \in {"m.room.message", "m.sticker", "m.reaction"}
    /\ evt.redactedBy = <<>>

\* its target: the related event for a reaction and for an edit, otherwise
\* the event itself
UpsertTarget(evt) ==
    IF evt.relatesTo # <<>> /\ (evt.type = "m.reaction" \/ evt.relationType = "m.replace")
    THEN evt.relatesTo
    ELSE evt.id

RedactedTargets(evts) ==
    {evt.relatesTo : evt \in {e \in evts : e.type = "m.room.redaction"}} \ {<<>>}

\* the ids of the message.deleted events of room r are exactly wanted: no
\* such event when wanted is empty, otherwise one holding each ID once
DeletedIDsAre(events, r, wanted) ==
    LET deletions == OfTypeAndChat(events, wsDomainTypeMessageDeleted, r)
    IN  IF wanted = {}
        THEN deletions = <<>>
        ELSE /\ Len(deletions) = 1
             /\ Elements(deletions[1].ids) = wanted
             /\ Len(deletions[1].ids) = Cardinality(wanted)

\* C17: for every touched room of a batch, the ids of its message.deleted
\* event are exactly the IDs the room's redaction events refer to together
\* with the IDs of the room's events whose redactedBy is set; there is one
\* message.deleted event when that set is not empty and none otherwise
C17_DeletedTargets ==
    [][ DequeuesBatch
            => LET batch == Head(eventQueue)
               IN  \A r \in DOMAIN batch.rooms :
                       DeletedIDsAre(domainEvents', r,
                           RedactedTargets(RawEventsOf(batch, r))
                           \cup ({evt.id : evt \in {e \in RawEventsOf(batch, r) :
                                                       e.redactedBy # <<>>}} \ {<<>>}))
      ]_vars

\* C17, as the code has it: an event's own ID is taken for its redactedBy
\* only when the event is not a redaction; a redaction event contributes the
\* ID it refers to and nothing else
C17_DeletedTargetsOfNonRedactions ==
    [][ DequeuesBatch
            => LET batch == Head(eventQueue)
               IN  \A r \in DOMAIN batch.rooms :
                       DeletedIDsAre(domainEvents', r,
                           RedactedTargets(RawEventsOf(batch, r))
                           \cup ({evt.id : evt \in {e \in RawEventsOf(batch, r) :
                                                       /\ e.redactedBy # <<>>
                                                       /\ e.type # "m.room.redaction"}}
                                 \ {<<>>}))
      ]_vars

\* a batch whose room a holds a redaction of m that was itself redacted is at
\* the head of the queue, and mapping it yields a message.deleted event
\* without the ID of that redaction
C17_Witness ==
    /\ hubPc = "wait"
    /\ eventQueue # <<>>
    /\ Head(eventQueue).kind = "SyncComplete"
    /\ ChatA \in DOMAIN Head(eventQueue).rooms
    /\ Head(eventQueue).rooms[ChatA].events = <<RedactedRedaction>>
    /\ mapSyncCompleteToDomainEvents(Head(eventQueue), <<ChatA>>)
           = <<DomainEvent(wsDomainTypeMessageDeleted, ChatA, <<MsgM>>)>>

\* the IDs of a list of hydrated entries
EntryIDs(entries) == [i \in 1..Len(entries) |-> entries[i].id]

\* sub holds elements of list, each at most once, in the order of list
InOrderOf(sub, list) ==
    \E at \in [1..Len(sub) -> 1..Len(list)] :
        /\ \A i \in 1..Len(sub) : list[at[i]] = sub[i]
        /\ \A i, j \in 1..Len(sub) : i < j => at[i] < at[j]

\* C18: a message.upserted message handed to a connection carries the whole
\* ids list of its event and at least one entry, the entries being hydrated
\* messages of IDs of that list, in the order of the list and none twice; a
\* message of any other domain type carries no entries
C18_EntriesFollowIDs ==
    [][ \A c \in Conns :
            WroteEvent(c)
                => /\ wire'[c].ids = curEvent.domainEvent.ids
                   /\ IF wire'[c].type = wsDomainTypeMessageUpserted
                      THEN /\ Len(wire'[c].entries) >= 1
                           /\ InOrderOf(EntryIDs(wire'[c].entries), wire'[c].ids)
                      ELSE wire'[c].entries = <<>>
      ]_vars

\* the connection has been written a message.upserted for m and n whose only
\* entry is the message n: m was not hydrated and ids still names it
C18_Witness ==
    /\ wire[1].type = wsDomainTypeMessageUpserted
    /\ wire[1].ok
    /\ wire[1].ids = <<MsgM, MsgN>>
    /\ Len(wire[1].entries) = 1
    /\ wire[1].entries[1].id = MsgN

\* C19: the batches leave the queue in the order they were accepted, one at a
\* time, and on every connection a message that came from an earlier batch
\* was handed to the transport before, and with a smaller seq than, every
\* message that came from a later batch
C19_BatchesInAcceptanceOrder ==
    /\ \A i, j \in 1..Len(eventQueue) :
           i < j => eventQueue[i].serial < eventQueue[j].serial
    /\ \A i \in 1..Len(eventQueue) : curSerial < eventQueue[i].serial
    /\ \A c \in Conns :
           /\ Len(srcLog[c]) = Len(seqLog[c])
           /\ \A i \in 1..Len(srcLog[c]) : srcLog[c][i] <= curSerial
           /\ \A i, j \in 1..Len(srcLog[c]) :
                  srcLog[c][i] < srcLog[c][j]
                      => (i < j /\ seqLog[c][i] < seqLog[c][j])

\* a connection has been handed messages from the first batch and, after
\* them, messages from the second
C19_Witness ==
    \E c \in Conns :
        /\ Len(srcLog[c]) >= 3
        /\ srcLog[c][1] = 1
        /\ srcLog[c][Len(srcLog[c])] = 2
        /\ delivered = 2
        /\ dropped = {}

\* C20: the subscription stored for a registered connection is empty, or the
\* wildcard alone, or a list of non-blank chat IDs other than the wildcard in
\* strictly ascending order (hence without repetition)
C20_StoredSubscriptionNormalized ==
    \A c \in clients :
        LET sub == state[c].chatIDs
        IN  \/ sub = <<>>
            \/ sub = <<wsWildcardSubscriptionChatID>>
            \/ /\ \A i \in 1..Len(sub) :
                      /\ TrimSpace(sub[i]) # <<>>
                      /\ sub[i] # wsWildcardSubscriptionChatID
               /\ \A i, j \in 1..Len(sub) : i < j => StrLess(sub[i], sub[j])

\* the registered connection holds [a, b], stored from the frame that listed
\* b, " a", a and " "
C20_Witness ==
    /\ 1 \in clients
    /\ state[1].chatIDs = <<ChatA, ChatB>>
    /\ req[1].frame = SetUnsorted
    /\ pc[1] = "reply"

\* C21: every write under way on a connection's transport, be it a pushed
\* event, a reply or a keepalive ping, is made by the goroutine that holds
\* that connection's write lock, so no two writes are under way on one
\* connection at a time
C21_WritesHoldWriteLock ==
    \A c \in Conns :
        /\ \A who \in writing[c] : writeMu[c] = who
        /\ Cardinality(writing[c]) <= 1

\* C21, as the code has it: the writes of messages (pushed events and
\* replies) are made under the write lock and exclude each other, and a
\* ping never coincides with a push, both being made by the dispatch loop
C21_MessageWritesHoldWriteLock ==
    \A c \in Conns :
        /\ \A who \in writing[c] \ {"ping"} : writeMu[c] = who
        /\ Cardinality(writing[c] \ {"ping"}) <= 1
        /\ ~({"hub", "ping"} \subseteq writing[c])

\* a ping is under way on connection 1 while its handler, holding the write
\* lock, is writing a reply on the same transport
C21_Witness ==
    /\ writing[1] = {"handler", "ping"}
    /\ writeMu[1] = "handler"
    /\ pc[1] = "reply"

\* C22: a failed keepalive ping is not handled: the tick leaves the connection
\* registered, with its subscription and its seq as they were, and a
\* connection leaves the registry only in a step in which a write of a message
\* to it fails or its handler's read fails
C22_FailedPingNotHandled ==
    [][ /\ \A c \in Conns :
               PingFailed(c) => /\ c \in clients'
                                /\ state'[c] = state[c]
                                /\ DOMAIN state' = DOMAIN state
        /\ \A c \in clients \ clients' :
               \/ WriteFailed(c)
               \/ pc[c] = "loop" /\ pc'[c] = "done"
      ]_vars

\* the ping of connection 1 failed in the last tick and left it registered;
\* a later write to it failed and took it out of the registry, its handler
\* still running
C22_Witness ==
    /\ 1 \in pingErr
    /\ 1 \notin clients
    /\ ~wire[1].ok
    /\ pc[1] \notin {"new", "done"}

\* a connection attempt runs ensureSubscription in this step
Attempts(c) == pc[c] = "new" /\ pc'[c] # "new"

\* C23: over all connection attempts the hub calls subscribe exactly once, in
\* the first attempt, and starts the dispatch loop at most once, in that same
\* call; every later attempt reuses the outcome and leaves the subscription
\* and the loop as they are
C23_SubscribesOnce ==
    /\ [](/\ subscribeCalls <= 1
          /\ (\E c \in Conns : pc[c] # "new") => subscribeCalls = 1
          /\ hubPc # "off" => subscribeCalls = 1 /\ subscribeState = "ok")
    /\ [][ /\ \A c \in Conns :
                  Attempts(c)
                      => IF subscribeCalls = 0
                         THEN /\ subscribeCalls' = 1
                              /\ hubPc' = IF subscribeState' = "ok" THEN "wait" ELSE "off"
                         ELSE /\ UNCHANGED <<subscribeCalls, subscribeState, hubPc>>
                              /\ curEvent' = curEvent /\ targets' = targets
           /\ subscribeCalls' # subscribeCalls => \E c \in Conns : Attempts(c)
           /\ hubPc # "off" => hubPc' # "off"
         ]_vars

\* the second connection has been registered on the subscription made for the
\* first, while the dispatch loop started then is in the middle of a fan-out
C23_Witness ==
    /\ subscribeCalls = 1
    /\ clients = {1, 2}
    /\ hubPc = "send"
    /\ nsent[2] = 0
    /\ pc[2] = "ready"

\* the fingerprint of the event at hand
CurrentFingerprint ==
    [type |-> curEvent.domainEvent.type, chatID |-> curEvent.domainEvent.chatID,
     ids |-> curEvent.domainEvent.ids, entries |-> curEvent.entries]

\* C24: every event that reaches the duplicate suppressor leaves its
\* fingerprint with the time of this event, suppressed or not; so in a run of
\* identical events (all events of SpecRun are the same chat.deleted, and
\* clock is the time the one before reached the suppressor) an event that
\* comes less than 250 ms after the one before is not delivered, however long
\* ago the first of the run was delivered
C24_RunOfIdenticalEventsSuppressed ==
    /\ [](recentFingerprints # <<>>
              => \A g \in DOMAIN recentFingerprints : recentFingerprints[g] = clock)
    /\ [][ ReachesSuppressor
               => /\ CurrentFingerprint \in DOMAIN recentFingerprints'
                  /\ recentFingerprints'[CurrentFingerprint] = clock'
                  /\ (recentFingerprints # <<>>
                      /\ clock' - clock < wsDuplicateEventDebounce)
                         => /\ hubPc' # "send"
                            /\ UNCHANGED <<wire, nsent, seqLog, state>>
                  /\ (recentFingerprints = <<>>
                      \/ clock' - clock >= wsDuplicateEventDebounce)
                         => hubPc' = "send"
         ]_vars

\* three identical events have reached the suppressor, each less than 250 ms
\* after the one before: the first was delivered, the second and the third
\* were not, although the third came 250 ms or more after the first
C24_Witness ==
    /\ curSerial = 3 /\ hubPc = "wait"
    /\ 1 \in clients
    /\ srcLog[1] = <<1>>
    /\ wire[1].type = wsDomainTypeChatDeleted
    /\ clock - wire[1].ts >= wsDuplicateEventDebounce

\* the dispatch loop turns to the next domain event in this step
TakesEvent == hubPc = "event" /\ domainEvents' = Tail(domainEvents)

\* C25: when the subscription of no registered connection matches the chatID
\* of an event, the event is skipped entirely: no hydration result is taken,
\* the duplicate suppressor's cache and clock stay as they are, no seq changes,
\* nothing is written and the loop stands at the next event
C25_UnmatchedEventSkipped ==
    [][ ( /\ TakesEvent
          /\ \A c \in clients : ~Matches(state[c].chatIDs, Head(domainEvents).chatID) )
            => /\ curEvent' = NoCurrent
               /\ targets' = {}
               /\ hubPc' = AfterEvent(Tail(domainEvents))
               /\ UNCHANGED dedupVars
               /\ UNCHANGED <<state, wire, nsent, seqLog, clients, closed>>
      ]_vars

\* the first batch came before the connection had subscribed and its event
\* was skipped; the identical event of the second batch was delivered at the
\* same clock reading, the skipped one having left no fingerprint
C25_Witness ==
    /\ delivered = 2 /\ curSerial = 2 /\ hubPc = "wait"
    /\ srcLog[1] = <<2>>
    /\ wire[1].type = wsDomainTypeChatDeleted /\ wire[1].ok
    /\ clock = 0
    /\ Cardinality(DOMAIN recentFingerprints) = 1

\* C26: a write that fails during the fan-out of an event affects only the
\* connection written to: that connection is closed and unregistered, the
\* other connections keep their registration, state and wire, the targets
\* still to be written stay targets of the same event, and the dispatch loop
\* keeps the rest of the batch and the queue and goes on with them
C26_FailedPushAffectsOnlyItsTarget ==
    [][ \A c \in Conns :
            (WroteEvent(c) /\ ~wire'[c].ok)
                => /\ clients' = clients \ {c}
                   /\ closed' = closed \cup {c}
                   /\ \A d \in Conns \ {c} :
                          /\ wire'[d] = wire[d] /\ nsent'[d] = nsent[d]
                          /\ d \in DOMAIN state => state'[d] = state[d]
                   /\ targets' = targets \ {c}
                   /\ targets' # {} => hubPc' = "send" /\ curEvent' = curEvent
                   /\ targets' = {} => hubPc' = AfterEvent(domainEvents)
                   /\ UNCHANGED <<domainEvents, eventQueue, curSerial>>
      ]_vars

\* one event of the first batch was written to both connections: the write
\* to connection 1 failed and took it out of the registry, the write to
\* connection 2 succeeded and left it registered with its handler running,
\* and the loop is at the next event of the batch
C26_Witness ==
    /\ ~wire[1].ok /\ wire[1].type = wsDomainTypeChatUpserted
    /\ 1 \notin clients
    /\ wire[2].ok
    /\ wire[2].type = wire[1].type /\ wire[2].chatID = wire[1].chatID
    /\ wire[2].ts = wire[1].ts
    /\ srcLog[1] = <<1>> /\ srcLog[2] = <<1>>
    /\ pc[2] = "loop" /\ 2 \in clients
    /\ hubPc = "event" /\ targets = {}

\* the handler of c takes a step
HandlerStep(c) == pc'[c] # pc[c]

\* the dispatch loop takes a step
DispatchStep == hubVars' # hubVars /\ pc' = pc

\* C27: the seq counter and the subscribed chat set of a registered connection
\* change only in steps of that connection's own handler; the dispatch loop
\* leaves both as they are
C27_StateMutatedOnlyByOwnHandler ==
    [][ \A c \in DOMAIN state :
            state'[c] # state[c] => HandlerStep(c) /\ ~DispatchStep
      ]_vars

\* C27, amended: the subscribed chat set of a registered connection changes
\* only in the step of its own handler that applies a valid command, and the
\* dispatch loop leaves it as it is; the seq counter changes only in a step of
\* the dispatch loop, by one, when the loop writes an event to that
\* connection, and in no step of any handler
C27_ChatSetByHandlerSeqByDispatch ==
    [][ \A c \in DOMAIN state :
            /\ state'[c].chatIDs # state[c].chatIDs
                   => /\ pc[c] = "frame" /\ pc'[c] = "reply"
                      /\ ~DispatchStep
                      /\ state'[c].chatIDs = FrameResponse(req[c].frame).chatIDs
            /\ state'[c].seq # state[c].seq
                   => /\ DispatchStep
                      /\ \A d \in Conns : ~HandlerStep(d)
                      /\ hubPc = "send" /\ c \in targets
                      /\ WroteEvent(c)
                      /\ state'[c].seq = state[c].seq + 1
      ]_vars

\* connection 1 has set its subscription to chat a and was then written two
\* events of that chat: its chat set is the one its handler stored, its seq
\* the one the dispatch loop counted up
C27_Witness ==
    /\ 1 \in DOMAIN state
    /\ state[1].chatIDs = <<ChatA>>
    /\ state[1].seq = 2
    /\ seqLog[1] = <<1, 2>>
    /\ pc[1] = "loop"

\* the batch with serial n is in the queue
Queued(n) == \E i \in 1..Len(eventQueue) : eventQueue[i].serial = n

\* the batch with serial n has been taken off the queue and the loop is done
\* with it
Processed(n) ==
    /\ ~Queued(n)
    /\ curSerial >= n
    /\ curSerial = n => hubPc \in {"wait", "ping"}

\* C28: with the goroutines scheduled fairly, every batch accepted into the
\* queue is eventually taken off it and processed to the end, whatever the
\* connections do (writes and pings that fail, transports closed, handlers
\* holding the write lock); and it is taken once: the loop takes the batches
\* in ascending serial, each from the head of the queue
C28_AcceptedBatchesProcessed ==
    /\ \A n \in 1..MaxLiveInputs : Queued(n) ~> Processed(n)
    /\ [][ curSerial' # curSerial
               => /\ eventQueue # <<>>
                  /\ curSerial' = Head(eventQueue).serial
                  /\ curSerial' > curSerial
                  /\ eventQueue' = Tail(eventQueue)
         ]_vars

\* the push of the first batch's event to connection 1 failed on a closed
\* transport; the second batch has been processed all the same and the loop
\* waits with an empty queue
C28_Witness ==
    /\ delivered = 2 /\ curSerial = 2
    /\ hubPc = "wait" /\ eventQueue = <<>>
    /\ srcLog[1] = <<1>>
    /\ ~wire[1].ok /\ wire[1].type = wsDomainTypeChatDeleted
    /\ 1 \in closed

\* the types of raw events that mark a room for a chat.upserted
MarkingTypes ==
    {"m.room.message", "m.sticker", "m.reaction", "m.room.member", "m.room.name",
     "m.room.avatar", "m.room.topic"}

\* the chat.upserted events among events that name room r
ChatUpsertsOf(events, r) == OfTypeAndChat(events, wsDomainTypeChatUpserted, r)

\* C29: for each room of a batch the mapper emits exactly one chat.upserted
\* event, with ids = [chatID], if the room's metadata, state or account data
\* changed or one of its raw events is a message, sticker, reaction,
\* membership, room-name, room-avatar or topic event, and none otherwise
C29_ChatUpsertedIffMarked ==
    [][ DequeuesBatch
            => LET batch == Head(eventQueue)
               IN  \A r \in DOMAIN batch.rooms :
                       LET room == batch.rooms[r]
                           marked == \/ room.meta \/ room.state \/ room.accountData
                                     \/ \E evt \in RawEventsOf(batch, r) :
                                            evt.type \in MarkingTypes
                       IN  IF marked
                           THEN ChatUpsertsOf(domainEvents', r)
                                    = <<DomainEvent(wsDomainTypeChatUpserted, r, <<r>>)>>
                           ELSE ChatUpsertsOf(domainEvents', r) = <<>>
      ]_vars

\* C29, amended: for each room of a batch the mapper emits exactly one
\* chat.upserted event, with ids = [chatID], if the room's metadata, state or
\* account data changed, if its timeline is not empty, or if one of its raw
\* events that is neither a redaction nor marked as redacted is a message,
\* sticker, reaction, membership, room-name, room-avatar or topic event, and
\* none otherwise
C29_ChatUpsertedIffMarkedOrTimeline ==
    [][ DequeuesBatch
            => LET batch == Head(eventQueue)
               IN  \A r \in DOMAIN batch.rooms :
                       LET room == batch.rooms[r]
                           marked == \/ room.meta \/ room.state \/ room.accountData
                                     \/ room.timeline
                                     \/ \E evt \in RawEventsOf(batch, r) :
                                            /\ evt.type \in MarkingTypes
                                            /\ evt.redactedBy = <<>>
                       IN  IF marked
                           THEN ChatUpsertsOf(domainEvents', r)
                                    = <<DomainEvent(wsDomainTypeChatUpserted, r, <<r>>)>>
                           ELSE ChatUpsertsOf(domainEvents', r) = <<>>
      ]_vars

\* a batch whose room a has a timeline and, as its only raw event, a
\* redaction is at the head of the queue, and mapping it yields a
\* chat.upserted for the room
C29_Witness ==
    /\ hubPc = "wait"
    /\ eventQueue # <<>>
    /\ Head(eventQueue).kind = "SyncComplete"
    /\ Head(eventQueue).leftRooms = <<>>
    /\ DOMAIN Head(eventQueue).rooms = {ChatA}
    /\ Head(eventQueue).rooms[ChatA]
           = SyncRoom(FALSE, FALSE, FALSE, TRUE, <<RedactionOfM>>)
    /\ mapSyncCompleteToDomainEvents(Head(eventQueue), <<ChatA>>)
           = <<DomainEvent(wsDomainTypeChatUpserted, ChatA, <<ChatA>>),
               DomainEvent(wsDomainTypeMessageDeleted, ChatA, <<MsgM>>)>>

\* the list is strictly ascending, hence without duplicates
Ascending(ids) == \A i, j \in 1..Len(ids) : i < j => StrLess(ids[i], ids[j])

\* the raw events of a room in the opposite order
Reversed(room) ==
    [room EXCEPT !.events = [i \in 1..Len(@) |-> @[Len(@) + 1 - i]]]

\* C30: for each room of a batch the mapper emits at most one chat.upserted,
\* one message.upserted and one message.deleted event; the ids of every
\* emitted event are strictly ascending, so sorted and free of duplicates; and
\* the events of a room are the same when its raw events come in the opposite
\* order
C30_OneEventPerTypeIdsSorted ==
    [][ DequeuesBatch
            => LET batch == Head(eventQueue)
               IN  /\ \A r \in DOMAIN batch.rooms :
                          /\ \A type \in {wsDomainTypeChatUpserted,
                                          wsDomainTypeMessageUpserted,
                                          wsDomainTypeMessageDeleted} :
                                 Len(OfTypeAndChat(domainEvents', type, r)) <= 1
                          /\ SelectSeq(domainEvents',
                                       LAMBDA e : e.chatID = r
                                                  /\ e.type # wsDomainTypeChatDeleted)
                                 = RoomDomainEvents(r, Reversed(batch.rooms[r]))
                   /\ \A i \in 1..Len(domainEvents') : Ascending(domainEvents'[i].ids)
      ]_vars

\* the two messages of room a have been mapped to one chat.upserted and one
\* message.upserted with the ids m, n in ascending order
C30_Witness ==
    /\ hubPc = "event"
    /\ curSerial = 1
    /\ domainEvents = <<DomainEvent(wsDomainTypeChatUpserted, ChatA, <<ChatA>>),
                        DomainEvent(wsDomainTypeMessageUpserted, ChatA, <<MsgM, MsgN>>)>>

\* the error code the rules give a frame, "" for none: not text, not JSON, not
\* an object or without a string type: INVALID_PAYLOAD; another command:
\* INVALID_COMMAND; a subscriptions.set with an unknown key, a requestID that
\* is not a string, or chatIDs missing or not an array of strings:
\* INVALID_PAYLOAD
RuleCode(frame) ==
    IF \/ frame.messageType # "text"
       \/ frame.json # "object"
       \/ ~frame.hasType
       \/ ~frame.typeOK
    THEN wsErrorCodeInvalidPayload
    ELSE IF frame.msgType # wsSubscriptionsCommandType
    THEN wsErrorCodeInvalidCommand
    ELSE IF \/ frame.extraKey
            \/ frame.requestID.k \notin {"absent", "str"}
            \/ frame.chatIDs.k # "arr"
            \/ \E i \in 1..Len(frame.chatIDs.v) : frame.chatIDs.v[i].k # "str"
    THEN wsErrorCodeInvalidPayload
    ELSE ""

\* ... and with the list that mixes the wildcard with other IDs rejected too
RuleCodeWithMix(frame) ==
    IF MixesWildcard(frame) /\ RuleCode(frame) = ""
    THEN wsErrorCodeInvalidPayload
    ELSE RuleCode(frame)

\* every frame read on a connection gets one response: the messages handed to
\* the connection are ready, one per frame answered, and the pushed events
OneResponsePerFrame ==
    \A c \in Conns :
        nsent[c] - Len(seqLog[c])
            = CASE pc[c] \in {"new", "ready"} -> 0
                [] pc[c] \in {"frame", "reply"} -> nframes[c]
                [] pc[c] = "loop" -> nframes[c] + 1
                [] OTHER -> nsent[c] - Len(seqLog[c])

\* the handler answers the frame at hand as Code says: with an error of that
\* code, or, stored, with subscriptions.updated in the next step of the turn
AnswersBy(Code(_)) ==
    \A c \in Conns :
        /\ (pc[c] = "frame" /\ pc'[c] # "frame")
               => IF Code(req[c].frame) # ""
                  THEN /\ Wrote(c)
                       /\ wire'[c].type = wsErrorType
                       /\ wire'[c].code = Code(req[c].frame)
                       /\ pc'[c] = "loop"
                  ELSE /\ nsent' = nsent
                       /\ pc'[c] = "reply"
        /\ (pc[c] = "reply" /\ pc'[c] # "reply")
               => /\ Wrote(c)
                  /\ wire'[c].type = wsSubscriptionsUpdatedType
                  /\ pc'[c] = "loop"

\* C31: every inbound frame gets exactly one response on its connection,
\* chosen in this order: a frame that is not text, not JSON, not an object or
\* without a string type gets INVALID_PAYLOAD; any other command than
\* subscriptions.set gets INVALID_COMMAND whatever else it holds; a
\* subscriptions.set with an unknown key, a requestID that is not a string, or
\* chatIDs missing or not an array of strings gets INVALID_PAYLOAD; every
\* other frame gets subscriptions.updated
C31_OneResponseByRule ==
    /\ []OneResponsePerFrame
    /\ [][AnswersBy(RuleCode)]_vars

\* C31, amended: the same, with one more rule at the end: a subscriptions.set
\* whose chatIDs combine the wildcard with other IDs gets INVALID_PAYLOAD, and
\* only the frames that pass this rule as well get subscriptions.updated
C31_OneResponseByRuleWithMix ==
    /\ []OneResponsePerFrame
    /\ [][AnswersBy(RuleCodeWithMix)]_vars

\* connection 1 has read two frames and was handed three messages, ready and
\* one response per frame; the second frame, a list mixing the wildcard with
\* an ID, was answered INVALID_PAYLOAD
C31_Witness ==
    /\ pc[1] = "loop"
    /\ nframes[1] = 2
    /\ nsent[1] = 3
    /\ req[1].frame = SetMixed
    /\ wire[1].type = wsErrorType
    /\ wire[1].code = wsErrorCodeInvalidPayload
    /\ wire[1].ok
    /\ 1 \in clients

\* C32: the seq values of the domain-event messages handed to a connection
\* are 1, 2, 3, ... without a gap, and the connection's counter stands at the
\* last of them: an event lost in the queue, suppressed as a duplicate,
\* dropped for an empty hydration or not matched by the subscription uses up
\* no seq
C32_SeqConsecutiveFromOne ==
    \A c \in Conns :
        /\ \A i \in 1..Len(seqLog[c]) : seqLog[c][i] = i
        /\ c \in DOMAIN state => state[c].seq = Len(seqLog[c])

\* both events of the first batch were written to the connection; of the two
\* events of the second batch the first, a duplicate, was suppressed, and the
\* second was written with the next seq, 3
C32_Witness ==
    /\ curSerial = 2 /\ hubPc = "wait"
    /\ seqLog[1] = <<1, 2, 3>>
    /\ srcLog[1] = <<1, 1, 2>>
    /\ wire[1].type = wsDomainTypeMessageUpserted
    /\ wire[1].seq = 3

\* the step records the fingerprint of the current event at the new clock time
Recording ==
    /\ ReachesSuppressor
    /\ CurrentFingerprint \in DOMAIN recentFingerprints'
    /\ recentFingerprints'[CurrentFingerprint] = clock'

\* a prune pass: the time of the last pass changes
PrunePass == lastFingerprintPrune' # lastFingerprintPrune

\* the cached fingerprints other than the one the step records
OlderFingerprints ==
    DOMAIN recentFingerprints \ (IF ReachesSuppressor THEN {CurrentFingerprint} ELSE {})

Age(f) == clock' - recentFingerprints[f]

\* C33: a prune pass happens only in a step that records a fingerprint and
\* only if wsFingerprintPruneInterval has passed since the pass before; at a
\* pass exactly the fingerprints last seen more than wsFingerprintRetention
\* ago go (none of them could still suppress), outside a pass none goes; and
\* after any recording every cached fingerprint was last seen less than
\* retention plus interval ago
C33_PruneOnlyStale ==
    /\ [][/\ PrunePass =>
               /\ Recording
               /\ lastFingerprintPrune' = <<clock'>>
               /\ lastFingerprintPrune # <<>> =>
                      clock' - lastFingerprintPrune[1] >= wsFingerprintPruneInterval
          /\ \A f \in OlderFingerprints :
               /\ f \notin DOMAIN recentFingerprints' <=>
                      (PrunePass /\ Age(f) > wsFingerprintRetention)
               /\ f \notin DOMAIN recentFingerprints' =>
                      ~(Age(f) < wsDuplicateEventDebounce)]_vars
    /\ [](\A f \in DOMAIN recentFingerprints :
              clock - recentFingerprints[f]
                  < wsFingerprintRetention + wsFingerprintPruneInterval)

\* three fingerprints are cached: the oldest was kept by a pass at exactly
\* the retention and is now 34999 ms old, 4999 ms after that pass
C33_Witness ==
    /\ lastFingerprintPrune # <<>>
    /\ clock - lastFingerprintPrune[1] = 4999
    /\ \E f \in DOMAIN recentFingerprints : clock - recentFingerprints[f] = 34999
    /\ \E f \in DOMAIN recentFingerprints : recentFingerprints[f] = clock

\* the last subscriptions.set of the connection was answered with a
\* successfully written subscriptions.updated for the list the registry holds,
\* and no set has succeeded since (an unanswered set leaves the handler at
\* "reply"; a failed answer unregisters the connection)
Acknowledged(c) ==
    /\ c \in clients
    /\ c \in DOMAIN state
    /\ pc[c] \in {"loop", "frame"}
    /\ state[c].chatIDs # <<>>

\* C34: once subscriptions.updated for a list has been written to a
\* connection, no domain event whose chatID the list does not match is written
\* to that connection until its next successful subscriptions.set, also when a
\* batch is being dispatched while the set is handled
C34_NoUnmatchedEventAfterUpdated ==
    [][ \A c \in Conns :
            (Acknowledged(c) /\ WroteEvent(c))
                => Matches(state[c].chatIDs, wire'[c].chatID)
      ]_vars

\* C34, as the code has it: the targets of an event are the registered
\* connections whose subscription matches its chatID at the moment the event is
\* taken up, and the event is written to connections of that set only,
\* whatever their subscription has become by then
C34_WrittenToTargetsOfSnapshot ==
    [][ /\ (hubPc = "event" /\ hubPc' = "hydrated") =>
              targets' = {c \in clients :
                             Matches(state[c].chatIDs, curEvent'.domainEvent.chatID)}
        /\ \A c \in Conns :
              WroteEvent(c) => /\ hubPc = "send"
                               /\ c \in targets
                               /\ wire'[c].chatID = curEvent.domainEvent.chatID
      ]_vars

\* the connection has had two frames answered and its subscription is ["a"];
\* the last message written to it, after the subscriptions.updated, is a
\* domain event of chat b
C34_Witness ==
    /\ 1 \in clients /\ 1 \in DOMAIN state
    /\ pc[1] = "loop" /\ nframes[1] = 2
    /\ state[1].chatIDs = <<ChatA>>
    /\ wire[1].type \in DomainTypes
    /\ wire[1].chatID = ChatB
    /\ wire[1].ok

\* the connection was registered and has been taken out of the registry
Removed(c) == c \in DOMAIN state /\ c \notin clients

\* C35: unregistration is final: a connection that has been removed from the
\* registry is not added again, a subscriptions.set its handler still handles
\* leaves its subscription as it was, and no target set computed from then on
\* contains it
C35_UnregistrationFinal ==
    [][ \A c \in Conns :
            Removed(c) => /\ c \notin clients'
                          /\ state'[c].chatIDs = state[c].chatIDs
                          /\ hubPc = "event" => c \notin targets'
      ]_vars

\* the transport failed under a write of the dispatch loop while the handler
\* held a frame it had read; the handler has since handled that
\* subscriptions.set, and the subscription is not the list it asked for
C35_Witness ==
    /\ Removed(1)
    /\ pc[1] = "reply"
    /\ req[1].normalized = <<ChatA>>
    /\ state[1].chatIDs = <<<<42>>>>
    /\ wire[1].type \in DomainTypes
    /\ ~wire[1].ok

\* the locks goroutine g holds
Held(g) ==
    {[lock |-> "mu", conn |-> 0] : x \in {y \in {g} : y \in mu.w \cup mu.r}}
    \cup {[lock |-> "fingerprintMu", conn |-> 0] : x \in {g} \cap fingerprintMu}
    \cup {[lock |-> "writeMu", conn |-> c] :
              c \in {d \in Conns : \/ g = 0 /\ writeMu[d] = "hub"
                                   \/ g = d /\ writeMu[d] = "handler"}}

\* goroutine g stands at a Lock or RLock
AtLock(g) == lockOps[g] # <<>> /\ Head(lockOps[g]).op \in {"Lock", "RLock"}

\* C36: a goroutine that stands at the registry lock, a write lock or the
\* fingerprint lock holds none of these locks, and so the locks never bring
\* the goroutines to a standstill: while any goroutine is inside a
\* lock-taking call, one of them can take its next step
C36_NoLockHeldWhileWaiting ==
    /\ \A g \in DOMAIN lockOps : AtLock(g) => Held(g) = {}
    /\ (\E g \in DOMAIN lockOps : lockOps[g] # <<>>)
           => \E g \in DOMAIN lockOps : ENABLED (Acquire(g) \/ Release(g))

\* the handler of connection 1 holds its write lock, the dispatch loop waits
\* for that lock to write to connection 1, holding nothing, and the handler of
\* connection 2 holds the registry lock
C36_Witness ==
    /\ writeMu[1] = "handler"
    /\ AtLock(0)
    /\ Head(lockOps[0]) = [op |-> "Lock", lock |-> "writeMu", conn |-> 1]
    /\ Held(0) = {}
    /\ mu.w = {2}

\* C37: the duplicate suppressor is one for all connections: when the event at
\* hand was recorded less than 250 ms before, the event is over for every
\* target (the target set is emptied, the loop goes on to the next event and
\* no connection is written to), whether or not a target has ever been sent
\* anything; and an event is written only from the target loop of the event at
\* hand, so a suppressed event is not written later either
C37_SuppressedForEveryConnection ==
    [][ /\ (/\ ReachesSuppressor
            /\ CurrentFingerprint \in DOMAIN recentFingerprints
            /\ clock' - recentFingerprints[CurrentFingerprint]
                   < wsDuplicateEventDebounce)
              => /\ targets' = {}
                 /\ curEvent' = NoCurrent
                 /\ hubPc' \in {"wait", "event"}
                 /\ \A c \in Conns : ~Wrote(c) /\ srcLog'[c] = srcLog[c]
        /\ \A c \in Conns :
              WroteEvent(c) => /\ curEvent # NoCurrent
                               /\ c \in targets
                               /\ srcLog'[c] = Append(srcLog[c], curSerial)
      ]_vars

\* connection 1 was sent the events of the first and the third batch;
\* connection 2, subscribed to everything, was sent the third only, as its
\* first event; the event of the second batch, a duplicate of the first, went
\* to neither
C37_Witness ==
    /\ srcLog[1] = <<1, 3>>
    /\ srcLog[2] = <<3>>
    /\ seqLog[2] = <<1>>
    /\ clock = 250 + 249 + 250
    /\ hubPc = "wait"

\* C38: an event that has a target and, for message.upserted, a hydrated entry
\* is kept from the target loop only if an event of the same type, chatID, ids
\* and entries (timestamps aside) was recorded less than 250 ms before; any
\* other event (one that differs in any of these, a first occurrence, a
\* recurrence 250 ms or more after the last recording) enters the target loop
\* with all its targets, and the loop is left only when a write to each of
\* them has been made
C38_SuppressedOnlyIfRecent ==
    [][ /\ ReachesSuppressor
            => /\ targets # {}
               /\ hubPc' # "send" => SeenWithinDebounce(clock')
               /\ hubPc' = "send" => targets' = targets
        /\ hubPc = "send"
            => /\ targets # {}
               /\ targets' # targets
                      => \E c \in targets : /\ targets' = targets \ {c}
                                            /\ WroteEvent(c)
                                            /\ wire'[c].ids = curEvent.domainEvent.ids
               /\ hubPc' # "send" => targets' = {}
      ]_vars

\* the same chat.deleted event came twice, the second time 250 ms or more
\* after it was recorded (the cache holds one fingerprint), and was written
\* to the connection both times
C38_Witness ==
    /\ srcLog[1] = <<1, 2>>
    /\ seqLog[1] = <<1, 2>>
    /\ wire[1].type = wsDomainTypeChatDeleted
    /\ Cardinality(DOMAIN recentFingerprints) = 1
    /\ hubPc = "wait"

\* the one rule that takes a raw event, the rules tried in this order: it is
\* a redaction event; its redactedBy is set; it is a message, sticker or
\* reaction; it is a membership, room-name, room-avatar or topic event
Rule(evt) ==
    IF evt.type = "m.room.redaction" THEN "redaction"
    ELSE IF evt.redactedBy # <<>> THEN "redactedBy"
    ELSE IF evt.type \in {"m.room.message", "m.sticker", "m.reaction"} THEN "message"
    ELSE IF evt.type \in {"m.room.member", "m.room.name", "m.room.avatar",
                          "m.room.topic"} THEN "state"
    ELSE "none"

\* C39: every raw event of a room is taken by exactly one rule, the first in
\* the order redaction event, redactedBy set, message/sticker/reaction, state
\* event, and acts as that rule says and in no other way: a redaction gives
\* the ID it refers to to message.deleted; an event taken for its redactedBy
\* gives its own ID to message.deleted, gives no message.upserted target and
\* does not mark the room for a chat.upserted; a message, sticker or reaction
\* gives its target to message.upserted and marks the room; a state event
\* marks the room
C39_OneRuleInOrder ==
    [][ DequeuesBatch
            => LET batch == Head(eventQueue)
               IN  \A r \in DOMAIN batch.rooms :
                       LET room == batch.rooms[r]
                           taken(rule) == {e \in RawEventsOf(batch, r) : Rule(e) = rule}
                           upserts == OfTypeAndChat(domainEvents',
                                                    wsDomainTypeMessageUpserted, r)
                           targets39 == {UpsertTarget(e) : e \in taken("message")}
                           marked == \/ room.meta \/ room.state \/ room.accountData
                                     \/ room.timeline
                                     \/ taken("message") \cup taken("state") # {}
                       IN  /\ DeletedIDsAre(domainEvents', r,
                                  ({e.relatesTo : e \in taken("redaction")}
                                   \cup {e.id : e \in taken("redactedBy")}) \ {<<>>})
                           /\ IF targets39 = {}
                              THEN upserts = <<>>
                              ELSE /\ Len(upserts) = 1
                                   /\ Elements(upserts[1].ids) = targets39
                           /\ Len(ChatUpsertsOf(domainEvents', r))
                                  = IF marked THEN 1 ELSE 0
      ]_vars

\* the batch at the head of the queue has, in room a, nothing but a message
\* that was redacted, and mapping it yields a message.deleted for that
\* message and neither a chat.upserted nor a message.upserted
C39_Witness ==
    /\ hubPc = "wait"
    /\ eventQueue # <<>>
    /\ Head(eventQueue).kind = "SyncComplete"
    /\ Head(eventQueue).leftRooms = <<>>
    /\ DOMAIN Head(eventQueue).rooms = {ChatA}
    /\ Head(eventQueue).rooms[ChatA]
           = SyncRoom(FALSE, FALSE, FALSE, FALSE, <<RedactedM>>)
    /\ mapSyncCompleteToDomainEvents(Head(eventQueue), <<ChatA>>)
           = <<DomainEvent(wsDomainTypeMessageDeleted, ChatA, <<MsgM>>)>>

\* the place of an event type among the events of one room
TypeRank(type) ==
    CASE type = wsDomainTypeChatUpserted -> 1
      [] type = wsDomainTypeMessageUpserted -> 2
      [] type = wsDomainTypeMessageDeleted -> 3
      [] OTHER -> 0

\* C40: in the events mapped from a batch every message.upserted has a
\* chat.upserted of the same room, all chat.deleted events come before every
\* other event, and the events of one room stand in the order chat.upserted,
\* message.upserted, message.deleted; the dispatch loop takes the events up
\* one by one from the front of that list, and what it writes to a connection
\* is the event it has taken up, so the connection sees them in that order
C40_RoomEventsInOrder ==
    [][ /\ DequeuesBatch
            => LET evs == domainEvents'
               IN  /\ \A i \in 1..Len(evs) :
                          evs[i].type = wsDomainTypeMessageUpserted
                              => ChatUpsertsOf(evs, evs[i].chatID) # <<>>
                   /\ \A i, j \in 1..Len(evs) :
                          i < j =>
                              /\ evs[j].type = wsDomainTypeChatDeleted
                                     => evs[i].type = wsDomainTypeChatDeleted
                              /\ (/\ evs[i].chatID = evs[j].chatID
                                  /\ evs[i].type # wsDomainTypeChatDeleted)
                                     => TypeRank(evs[i].type) < TypeRank(evs[j].type)
        /\ (hubPc = "event" /\ hubVars' # hubVars)
            => /\ domainEvents' = Tail(domainEvents)
               /\ hubPc' = "hydrated" => curEvent'.domainEvent = Head(domainEvents)
        /\ hubPc # "event" /\ ~DequeuesBatch => domainEvents' = domainEvents
        /\ \A c \in Conns :
              WroteEvent(c) => /\ wire'[c].type = curEvent.domainEvent.type
                               /\ wire'[c].chatID = curEvent.domainEvent.chatID
      ]_vars

\* a batch with the left room b and, in room a, the message n and a
\* redaction of m has been dispatched: the connection was written four
\* events, the last of them the message.deleted of room a
C40_Witness ==
    /\ hubPc = "wait"
    /\ curSerial = 1
    /\ seqLog[1] = <<1, 2, 3, 4>>
    /\ wire[1].type = wsDomainTypeMessageDeleted
    /\ wire[1].chatID = ChatA
    /\ wire[1].ids = <<MsgM>>

=============================================================================
